---- MODULE Spec2Model ----
(***************************************************************************)
(* Trial bookkeeping of optuna's storages: RedisStorage (every Redis       *)
(* command is one step of a worker), InMemoryStorage (every method runs    *)
(* under the storage's RLock, one step) and _CachedStorage (one wrapper    *)
(* per worker in front of a shared backend).                               *)
(***************************************************************************)
EXTENDS Integers, Sequences, FiniteSets, TLC

VARIABLES
    now,      \* the clock read by datetime.now() and by Redis TIME
    rTrial,   \* Redis "trial_id:<id>:frozentrial": trial id -> FrozenTrial
    rDist,    \* Redis "study_id:<id>:params_distribution": name -> distribution
    rHb,      \* Redis "study_id:<id>:heartbeats": trial id -> time
    rBest,    \* Redis "study_id:<id>:best_trial_id": <<>> (no key) or <<id>>
    rDirs,    \* Redis "study_id:<id>:directions"
    rKeys,    \* Redis "trial_counter", "study_id:<id>:trial_number", "...:trial_list"
    pc,       \* per worker: the step of its call it takes next
    args,     \* per worker: the arguments of the call it is in
    loc,      \* per worker: the local variables of the call it is in
    ret,      \* per worker: how its last call ended
    ncalls,   \* per worker: the calls it has begun
    mTrials,  \* InMemoryStorage: _StudyInfo.trials, the trial of number n at n + 1
    mDist,    \* InMemoryStorage: _StudyInfo.param_distribution
    mBest,    \* InMemoryStorage: _StudyInfo.best_trial_id, <<>> (None) or <<id>>
    mDirs,    \* InMemoryStorage: _StudyInfo.directions
    cache,    \* per worker: the _CachedStorage it calls through
    mStore,   \* InMemoryStorage with several studies: _studies and the id map
    cStore,   \* per worker: its _CachedStorage with several studies
    lock      \* the _lock of a _CachedStorage its threads share: the holder, or 0

redisVars == <<rTrial, rDist, rHb, rBest, rDirs, rKeys>>
memVars == <<mTrials, mDist, mBest, mDirs>>
workerVars == <<pc, args, loc, ret, ncalls>>
storeVars == <<mStore, cStore, lock>>
vars == <<now, redisVars, memVars, cache, workerVars, storeVars>>

----------------------------------------------------------------------------
(* Bounds of the model. *)

NWorkers == 2
NTrials == 2
MaxTime == 12
MaxCalls == 1

Workers == 1..NWorkers
TrialIds == 0..(NTrials - 1)

\* The trial the workers contend for, in the specifications where they do.
SharedTrial == CHOOSE t \in TrialIds : \A u \in TrialIds : t <= u

----------------------------------------------------------------------------
(* Data model: TrialState, FrozenTrial, distributions. *)

FinishedStates == {"COMPLETE", "FAIL", "PRUNED"}
TrialStates == {"WAITING", "RUNNING"} \cup FinishedStates

is_finished(state) == state \in FinishedStates

EmptyMap == [x \in {} |-> x]

Put(f, k, v) == [x \in (DOMAIN f) \cup {k} |-> IF x = k THEN v ELSE f[x]]

FrozenTrial(trial_id, number, state, datetime_start) ==
    [trial_id |-> trial_id, number |-> number, state |-> state,
     values |-> <<>>, intermediate_values |-> EmptyMap,
     params |-> EmptyMap, distributions |-> EmptyMap,
     user_attrs |-> EmptyMap, system_attrs |-> EmptyMap,
     datetime_start |-> datetime_start, datetime_complete |-> <<>>]

CatA == [family |-> "categorical", choices |-> <<10, 20>>, bounds |-> <<>>]
CatB == [family |-> "categorical", choices |-> <<10, 30>>, bounds |-> <<>>]
IntU == [family |-> "int_uniform", choices |-> <<>>, bounds |-> <<0, 1>>]
Distributions == {CatA, CatB, IntU}
\* The family of IntU with other bounds.
IntW == [family |-> "int_uniform", choices |-> <<>>, bounds |-> <<0, 2>>]
ParamNames == {"x"}
InternalValues == {0, 1}

check_distribution_compatibility(dist_old, dist_new) ==
    /\ dist_old.family = dist_new.family
    /\ dist_old.family = "categorical" => dist_old.choices = dist_new.choices

to_external_repr(dist, internal) ==
    IF dist.family = "categorical" THEN dist.choices[internal + 1] ELSE internal

----------------------------------------------------------------------------
(* Workers: a call's arguments, locals and result. *)

NoTrial == FrozenTrial(0, 0, "WAITING", <<>>)

\* The counters and the trial list of a study of n trials whose ids are their
\* numbers; no trial of any study: no "trial_counter" key.
StudyKeys(n) ==
    [trial_counter |-> IF n = 0 THEN <<>> ELSE <<n - 1>>,
     trial_number |-> n - 1,
     trial_list |-> [i \in 1..n |-> i - 1]]

NoArgs == [op |-> "none", trial_id |-> 0, state |-> "WAITING", name |-> "x",
           value |-> 0, dist |-> IntU, step |-> 0, key |-> "k",
           directions |-> <<"NOT_SET">>, study_id |-> 0]

\* _StudyInfo of a _CachedStorage that has not heard of the study; ids is the
\* domain of _trial_id_to_study_id_and_number.
NoCache == [known |-> FALSE, trials |-> EmptyMap, owned_or_finished_trial_ids |-> {},
            updates |-> EmptyMap, param_distribution |-> EmptyMap, ids |-> {},
            directions |-> <<"NOT_SET">>]

NoLoc == [trial |-> NoTrial, dist |-> EmptyMap, time |-> 0, heartbeats |-> EmptyMap,
          stale |-> {}, todo |-> {}, confirmed |-> {}, direction |-> "NOT_SET", caller |-> "none",
          result |-> <<>>, all_trials |-> <<>>, best_trial_id |-> <<>>,
          backend_calls |-> 0]

SetStateArgs(t, s) == [NoArgs EXCEPT !.op = "set_trial_state", !.trial_id = t, !.state = s]
SetParamArgs(t, n, v, d) ==
    [NoArgs EXCEPT !.op = "set_trial_param", !.trial_id = t, !.name = n, !.value = v, !.dist = d]
SetValuesArgs(t, v) == [NoArgs EXCEPT !.op = "set_trial_values", !.trial_id = t, !.value = v]
SetIntermediateArgs(t, step, v) ==
    [NoArgs EXCEPT !.op = "set_trial_intermediate_value", !.trial_id = t,
                   !.step = step, !.value = v]
SetUserAttrArgs(t, k, v) ==
    [NoArgs EXCEPT !.op = "set_trial_user_attr", !.trial_id = t, !.key = k, !.value = v]
SetSystemAttrArgs(t, k, v) ==
    [NoArgs EXCEPT !.op = "set_trial_system_attr", !.trial_id = t, !.key = k, !.value = v]
HeartbeatArgs(t) == [NoArgs EXCEPT !.op = "record_heartbeat", !.trial_id = t]
SetDirectionsArgs(d) == [NoArgs EXCEPT !.op = "set_study_directions", !.directions = d]
\* create_new_trial: state is the template's state (RUNNING also for no template).
CreateTrialArgs(s) == [NoArgs EXCEPT !.op = "create_new_trial", !.state = s]
ReadTrialsArgs == [NoArgs EXCEPT !.op = "read_trials_from_remote_storage"]
GetAllTrialsArgs == [NoArgs EXCEPT !.op = "get_all_trials"]
FailStaleArgs == [NoArgs EXCEPT !.op = "fail_stale_trials"]
GetBestTrialArgs == [NoArgs EXCEPT !.op = "get_best_trial"]
FlushTrialArgs(t) == [NoArgs EXCEPT !.op = "_flush_trial", !.trial_id = t]
GetTrialArgs(t) == [NoArgs EXCEPT !.op = "get_trial", !.trial_id = t]

\* The call of worker w ends: it returns r, or raises r.
Done(w, r) ==
    /\ pc' = [pc EXCEPT ![w] = "done"]
    /\ ret' = [ret EXCEPT ![w] = r]
    /\ loc' = [loc EXCEPT ![w] = NoLoc]

Goto(w, label) == pc' = [pc EXCEPT ![w] = label]

\* Worker w begins the call a.
Begin(w, a) ==
    /\ pc[w] = "idle"
    /\ args' = [args EXCEPT ![w] = a]
    /\ pc' = [pc EXCEPT ![w] = a.op]
    /\ loc' = [loc EXCEPT ![w] = NoLoc]
    /\ ret' = [ret EXCEPT ![w] = "none"]
    /\ UNCHANGED <<now, storeVars, redisVars, memVars, cache>>

\* Worker w begins one of the MaxCalls calls it makes.
BeginCounted(w, a) ==
    /\ ncalls[w] < MaxCalls
    /\ ncalls' = [ncalls EXCEPT ![w] = @ + 1]
    /\ Begin(w, a)

\* Worker w begins a call; the calls are not counted.
BeginFree(w, a) == Begin(w, a) /\ UNCHANGED ncalls

\* Worker w takes the result of its call and is free for the next one.
Return(w) ==
    /\ pc[w] = "done"
    /\ pc' = [pc EXCEPT ![w] = "idle"]
    /\ UNCHANGED <<now, storeVars, redisVars, memVars, cache, args, loc, ret, ncalls>>

\* The clock advances.
Tick ==
    /\ now < MaxTime
    /\ now' = now + 1
    /\ UNCHANGED <<redisVars, memVars, cache, workerVars, storeVars>>

----------------------------------------------------------------------------
(* RedisStorage.  Every Redis command (GET, SET, HSET, HDEL, HGETALL, TIME,  *)
(* a MULTI/EXEC pipeline) is one step; the Python between two commands runs  *)
(* with the step of the command before it.  The EXISTS of _check_trial_id    *)
(* runs with the GET that follows it: no modelled call deletes a trial key.  *)

HeartbeatInterval == 5

\* grace_period of __init__: <<>> is None.
GracePeriod == <<>>

\* set_trial_state ends with r: in its caller, or in the loop of fail_stale_trials.
Redis_set_trial_state_end(w, r) ==
    IF loc[w].caller = "fail_stale_trials" /\ r \in {"True", "False"}
    THEN /\ pc' = [pc EXCEPT ![w] = "fst_loop"]
         /\ loc' = [loc EXCEPT ![w].trial = NoTrial,
                                ![w].direction = "NOT_SET",
                                ![w].confirmed =
                                    IF r = "True" THEN @ \cup {args[w].trial_id} ELSE @]
         /\ UNCHANGED ret
    ELSE Done(w, r)

\* The trial as set_trial_state writes it.
Redis_set_trial_state_trial(trial, state, time) ==
    [trial EXCEPT !.state = state,
                  !.datetime_start = IF state = "RUNNING" THEN <<time>> ELSE @,
                  !.datetime_complete = IF is_finished(state) THEN <<time>> ELSE @]

\* set_trial_state: get_trial, check_trial_is_updatable, the RUNNING test, the new record.
Redis_set_trial_state_get(w) ==
    /\ pc[w] = "set_trial_state"
    /\ LET trial == rTrial[args[w].trial_id]
           state == args[w].state
       IN IF is_finished(trial.state)
          THEN Redis_set_trial_state_end(w, "NotUpdatable")
          ELSE IF state = "RUNNING" /\ trial.state # "WAITING"
          THEN Redis_set_trial_state_end(w, "False")
          ELSE /\ loc' = [loc EXCEPT ![w].trial =
                                Redis_set_trial_state_trial(trial, state, now)]
               /\ Goto(w, "sts_set")
               /\ UNCHANGED ret
    /\ UNCHANGED <<now, storeVars, memVars, cache, redisVars, args, ncalls>>

\* set_trial_state: self._redis.set(self._key_trial(trial_id), pickle.dumps(trial)).
Redis_set_trial_state_set(w) ==
    /\ pc[w] = "sts_set"
    /\ rTrial' = [rTrial EXCEPT ![args[w].trial_id] = loc[w].trial]
    /\ IF is_finished(args[w].state)
       THEN /\ Goto(w, "uc_get")
            /\ UNCHANGED <<loc, ret>>
       ELSE Redis_set_trial_state_end(w, "True")
    /\ UNCHANGED <<now, storeVars, memVars, cache, rDist, rHb, rBest, rDirs, rKeys, args, ncalls>>

\* _update_cache: get_trial, the COMPLETE test.
Redis_update_cache_get(w) ==
    /\ pc[w] = "uc_get"
    /\ LET trial == rTrial[args[w].trial_id]
       IN /\ loc' = [loc EXCEPT ![w].trial = trial]
          /\ Goto(w, IF trial.state # "COMPLETE" THEN "sts_hdel" ELSE "uc_dirs")
    /\ UNCHANGED <<now, storeVars, memVars, cache, redisVars, args, ret, ncalls>>

\* _update_cache: get_study_directions, the single-objective test.
Redis_update_cache_directions(w) ==
    /\ pc[w] = "uc_dirs"
    /\ loc' = [loc EXCEPT ![w].direction = rDirs[1]]
    /\ Goto(w, IF Len(rDirs) > 1 THEN "sts_hdel" ELSE "uc_exists")
    /\ UNCHANGED <<now, storeVars, memVars, cache, redisVars, args, ret, ncalls>>

\* _update_cache: EXISTS best_trial_id.
Redis_update_cache_exists(w) ==
    /\ pc[w] = "uc_exists"
    /\ Goto(w, IF rBest = <<>> THEN "uc_set" ELSE "uc_best")
    /\ UNCHANGED <<now, storeVars, memVars, cache, redisVars, args, loc, ret, ncalls>>

\* A comparison that replaces the best trial on an equal value as well.
Redis_update_cache_better_or_equal(direction, new_value, best_value) ==
    IF direction = "MAXIMIZE" THEN new_value >= best_value ELSE new_value <= best_value

\* Whether _update_cache replaces the best trial.
Redis_update_cache_better(direction, new_value, best_value) ==
    IF direction = "MAXIMIZE" THEN new_value > best_value ELSE new_value < best_value

\* _update_cache: get_best_trial(study_id).value, the two assertions, the comparison.
Redis_update_cache_best(w) ==
    /\ pc[w] = "uc_best"
    /\ LET best == rTrial[rBest[1]]
           trial == loc[w].trial
       IN IF best.values = <<>> \/ trial.values = <<>>
          THEN Done(w, "AssertionError")
          ELSE /\ Goto(w, IF Redis_update_cache_better(loc[w].direction,
                                                       trial.values[1], best.values[1])
                          THEN "uc_set" ELSE "sts_hdel")
               /\ UNCHANGED <<loc, ret>>
    /\ UNCHANGED <<now, storeVars, memVars, cache, redisVars, args, ncalls>>

\* _set_best_trial: the pipeline that sets best_trial_id.
Redis_set_best_trial(w) ==
    /\ pc[w] = "uc_set"
    /\ rBest' = <<args[w].trial_id>>
    /\ Goto(w, "sts_hdel")
    /\ UNCHANGED <<now, storeVars, memVars, cache, rTrial, rDist, rHb, rDirs, rKeys, args, loc, ret, ncalls>>

\* set_trial_state: HDEL of the trial's heartbeat, return True.
Redis_set_trial_state_hdel(w) ==
    /\ pc[w] = "sts_hdel"
    /\ rHb' = [t \in (DOMAIN rHb) \ {args[w].trial_id} |-> rHb[t]]
    /\ Redis_set_trial_state_end(w, "True")
    /\ UNCHANGED <<now, storeVars, memVars, cache, rTrial, rDist, rBest, rDirs, rKeys, args, ncalls>>

\* set_trial_param: check_trial_is_updatable(trial_id, self.get_trial(trial_id).state).
Redis_set_trial_param_check(w) ==
    /\ pc[w] = "set_trial_param"
    /\ IF is_finished(rTrial[args[w].trial_id].state)
       THEN Done(w, "NotUpdatable")
       ELSE Goto(w, "stp_dist") /\ UNCHANGED <<loc, ret>>
    /\ UNCHANGED <<now, storeVars, memVars, cache, redisVars, args, ncalls>>

\* set_trial_param: _get_study_param_distribution, check_distribution_compatibility.
Redis_set_trial_param_distribution(w) ==
    /\ pc[w] = "stp_dist"
    /\ LET param_distribution == rDist
           param_name == args[w].name
       IN IF /\ param_name \in DOMAIN param_distribution
             /\ ~check_distribution_compatibility(param_distribution[param_name],
                                                  args[w].dist)
          THEN Done(w, "ValueError")
          ELSE /\ loc' = [loc EXCEPT ![w].dist = param_distribution]
               /\ Goto(w, "stp_get")
               /\ UNCHANGED ret
    /\ UNCHANGED <<now, storeVars, memVars, cache, redisVars, args, ncalls>>

\* set_trial_param: trial = self.get_trial(trial_id).
Redis_set_trial_param_get(w) ==
    /\ pc[w] = "stp_get"
    /\ loc' = [loc EXCEPT ![w].trial = rTrial[args[w].trial_id]]
    /\ Goto(w, "stp_exec")
    /\ UNCHANGED <<now, storeVars, memVars, cache, redisVars, args, ret, ncalls>>

\* set_trial_param: the pipeline that sets the study's distributions and the trial.
Redis_set_trial_param_execute(w) ==
    /\ pc[w] = "stp_exec"
    /\ LET a == args[w]
           trial == loc[w].trial
       IN /\ rDist' = Put(loc[w].dist, a.name, a.dist)
          /\ rTrial' = [rTrial EXCEPT ![a.trial_id] =
                [trial EXCEPT !.params = Put(@, a.name, to_external_repr(a.dist, a.value)),
                              !.distributions = Put(@, a.name, a.dist)]]
    /\ Done(w, "None")
    /\ UNCHANGED <<now, storeVars, memVars, cache, rHb, rBest, rDirs, rKeys, args, ncalls>>

\* trial = self.get_trial(trial_id); self.check_trial_is_updatable(trial_id, trial.state).
Redis_get_updatable(w, label, next) ==
    /\ pc[w] = label
    /\ LET trial == rTrial[args[w].trial_id]
       IN IF is_finished(trial.state)
          THEN Done(w, "NotUpdatable")
          ELSE /\ loc' = [loc EXCEPT ![w].trial = trial]
               /\ Goto(w, next)
               /\ UNCHANGED ret
    /\ UNCHANGED <<now, storeVars, memVars, cache, redisVars, args, ncalls>>

\* _set_trial: self._redis.set(self._key_trial(trial_id), pickle.dumps(trial)).
Redis_set_trial(w, label, trial) ==
    /\ pc[w] = label
    /\ rTrial' = [rTrial EXCEPT ![args[w].trial_id] = trial]
    /\ Done(w, "None")
    /\ UNCHANGED <<now, storeVars, memVars, cache, rDist, rHb, rBest, rDirs, rKeys, args, ncalls>>

Redis_set_trial_values_get(w) == Redis_get_updatable(w, "set_trial_values", "stv_set")

Redis_set_trial_values_set(w) ==
    Redis_set_trial(w, "stv_set", [loc[w].trial EXCEPT !.values = <<args[w].value>>])

Redis_set_trial_intermediate_value_get(w) ==
    Redis_get_updatable(w, "set_trial_intermediate_value", "sti_set")

Redis_set_trial_intermediate_value_set(w) ==
    Redis_set_trial(w, "sti_set",
        [loc[w].trial EXCEPT !.intermediate_values = Put(@, args[w].step, args[w].value)])

Redis_set_trial_user_attr_get(w) ==
    Redis_get_updatable(w, "set_trial_user_attr", "stu_set")

Redis_set_trial_user_attr_set(w) ==
    Redis_set_trial(w, "stu_set",
        [loc[w].trial EXCEPT !.user_attrs = Put(@, args[w].key, args[w].value)])

Redis_set_trial_system_attr_get(w) ==
    Redis_get_updatable(w, "set_trial_system_attr", "sts_attr_set")

Redis_set_trial_system_attr_set(w) ==
    Redis_set_trial(w, "sts_attr_set",
        [loc[w].trial EXCEPT !.system_attrs = Put(@, args[w].key, args[w].value)])

\* record_heartbeat: _get_redis_time (get_study_id_from_trial_id reads a key that
\* no modelled call changes).
Redis_record_heartbeat_time(w) ==
    /\ pc[w] = "record_heartbeat"
    /\ loc' = [loc EXCEPT ![w].time = now]
    /\ Goto(w, "rh_hset")
    /\ UNCHANGED <<now, storeVars, memVars, cache, redisVars, args, ret, ncalls>>

\* record_heartbeat: HSET heartbeats trial_id time.
Redis_record_heartbeat_hset(w) ==
    /\ pc[w] = "rh_hset"
    /\ rHb' = Put(rHb, args[w].trial_id, loc[w].time)
    /\ Done(w, "None")
    /\ UNCHANGED <<now, storeVars, memVars, cache, rTrial, rDist, rBest, rDirs, rKeys, args, ncalls>>

\* _get_stale_trial_ids: the grace period.
Redis_grace_period ==
    IF GracePeriod = <<>> THEN 2 * HeartbeatInterval ELSE GracePeriod[1]

\* A scan that also takes a trial whose last heartbeat is exactly the grace period ago.
Redis_stale_inclusive(heartbeats, current_time) ==
    {t \in DOMAIN heartbeats : current_time - heartbeats[t] >= Redis_grace_period}

\* _get_stale_trial_ids: the trials of heartbeats that are stale at current_time.
Redis_stale(heartbeats, current_time) ==
    {t \in DOMAIN heartbeats : current_time - heartbeats[t] > Redis_grace_period}

\* _get_stale_trial_ids: current_time = self._get_redis_time().
Redis_get_stale_trial_ids_time(w) ==
    /\ pc[w] = "fail_stale_trials"
    /\ loc' = [loc EXCEPT ![w].time = now, ![w].caller = "fail_stale_trials"]
    /\ Goto(w, "fst_hgetall")
    /\ UNCHANGED <<now, storeVars, memVars, cache, redisVars, args, ret, ncalls>>

\* _get_stale_trial_ids: HGETALL heartbeats, the loop that collects the stale ids.
Redis_get_stale_trial_ids_hgetall(w) ==
    /\ pc[w] = "fst_hgetall"
    /\ loc' = [loc EXCEPT ![w].heartbeats = rHb,
                           ![w].stale = Redis_stale(rHb, loc[w].time),
                           ![w].todo = Redis_stale(rHb, loc[w].time)]
    /\ Goto(w, "fst_loop")
    /\ UNCHANGED <<now, storeVars, memVars, cache, redisVars, args, ret, ncalls>>

\* fail_stale_trials: the next stale trial goes to set_trial_state(trial_id, FAIL)
\* (the hash gives its entries in any order); after the last, return confirmed.
Redis_fail_stale_trials_loop(w) ==
    /\ pc[w] = "fst_loop"
    /\ IF loc[w].todo = {}
       THEN /\ pc' = [pc EXCEPT ![w] = "done"]
            /\ ret' = [ret EXCEPT ![w] = "confirmed"]
            /\ UNCHANGED <<loc, args>>
       ELSE \E t \in loc[w].todo :
            /\ loc' = [loc EXCEPT ![w].todo = @ \ {t}]
            /\ args' = [args EXCEPT ![w].trial_id = t, ![w].state = "FAIL"]
            /\ Goto(w, "set_trial_state")
            /\ UNCHANGED ret
    /\ UNCHANGED <<now, storeVars, memVars, cache, redisVars, ncalls>>

\* set_study_directions: the stored directions are read and tested.
Redis_set_study_directions_get(w) ==
    /\ pc[w] = "set_study_directions"
    /\ IF rDirs[1] # "NOT_SET" /\ rDirs # args[w].directions
       THEN Done(w, "ValueError")
       ELSE Goto(w, "ssd_exec") /\ UNCHANGED <<loc, ret>>
    /\ UNCHANGED <<now, storeVars, memVars, cache, redisVars, args, ncalls>>

\* set_study_directions: the pipeline that sets the directions.
Redis_set_study_directions_execute(w) ==
    /\ pc[w] = "ssd_exec"
    /\ rDirs' = args[w].directions
    /\ Done(w, "None")
    /\ UNCHANGED <<now, storeVars, memVars, cache, rTrial, rDist, rHb, rBest, rKeys, args, ncalls>>

\* create_new_trial: _create_running_trial or the copy of the template, which is
\* not a finished trial here; EXISTS trial_counter.
Redis_create_new_trial_exists(w) ==
    /\ pc[w] = "create_new_trial"
    /\ loc' = [loc EXCEPT ![w].trial =
                  FrozenTrial(0, 0, args[w].state,
                              IF args[w].state = "WAITING" THEN <<>> ELSE <<now>>)]
    /\ Goto(w, IF rKeys.trial_counter = <<>> THEN "cnt_init" ELSE "cnt_id")
    /\ UNCHANGED <<now, storeVars, memVars, cache, redisVars, args, ret, ncalls>>

\* create_new_trial: self._redis.set("trial_counter", -1).
Redis_create_new_trial_init(w) ==
    /\ pc[w] = "cnt_init"
    /\ rKeys' = [rKeys EXCEPT !.trial_counter = <<-1>>]
    /\ Goto(w, "cnt_id")
    /\ UNCHANGED <<now, storeVars, memVars, cache, rTrial, rDist, rHb, rBest, rDirs, args, loc, ret, ncalls>>

\* create_new_trial: trial_id = self._redis.incr("trial_counter", 1).
Redis_create_new_trial_id(w) ==
    /\ pc[w] = "cnt_id"
    /\ rKeys' = [rKeys EXCEPT !.trial_counter = <<@[1] + 1>>]
    /\ loc' = [loc EXCEPT ![w].trial.trial_id = rKeys'.trial_counter[1]]
    /\ Goto(w, "cnt_number")
    /\ UNCHANGED <<now, storeVars, memVars, cache, rTrial, rDist, rHb, rBest, rDirs, args, ret, ncalls>>

\* create_new_trial: trial_number = self._redis.incr("study_id:...:trial_number").
Redis_create_new_trial_number(w) ==
    /\ pc[w] = "cnt_number"
    /\ rKeys' = [rKeys EXCEPT !.trial_number = @ + 1]
    /\ loc' = [loc EXCEPT ![w].trial.number = rKeys'.trial_number]
    /\ Goto(w, "cnt_exec")
    /\ UNCHANGED <<now, storeVars, memVars, cache, rTrial, rDist, rHb, rBest, rDirs, args, ret, ncalls>>

\* create_new_trial: the pipeline that sets the trial's key and appends the trial
\* id to the study's trial list; return trial_id.
Redis_create_new_trial_execute(w) ==
    /\ pc[w] = "cnt_exec"
    /\ rTrial' = Put(rTrial, loc[w].trial.trial_id, loc[w].trial)
    /\ rKeys' = [rKeys EXCEPT !.trial_list = Append(@, loc[w].trial.trial_id)]
    /\ pc' = [pc EXCEPT ![w] = "done"]
    /\ ret' = [ret EXCEPT ![w] = "trial_id"]
    /\ loc' = [loc EXCEPT ![w] = [NoLoc EXCEPT !.trial = loc[w].trial]]
    /\ UNCHANGED <<now, storeVars, memVars, cache, rDist, rHb, rBest, rDirs, args, ncalls>>

\* The call of worker w ends: it returns the trial.
DoneTrial(w, trial) ==
    /\ pc' = [pc EXCEPT ![w] = "done"]
    /\ ret' = [ret EXCEPT ![w] = "trial"]
    /\ loc' = [loc EXCEPT ![w] = [NoLoc EXCEPT !.trial = trial]]

\* get_best_trial: EXISTS best_trial_id.
Redis_get_best_trial_exists(w) ==
    /\ pc[w] = "get_best_trial"
    /\ Goto(w, IF rBest = <<>> THEN "gbt_scan" ELSE "gbt_get")
    /\ UNCHANGED <<now, storeVars, memVars, cache, redisVars, args, loc, ret, ncalls>>

\* get_best_trial, no best_trial_id: get_all_trials and the COMPLETE trials of it,
\* in the order of the study's trial list.
Redis_get_best_trial_scan(w) ==
    /\ pc[w] = "gbt_scan"
    /\ LET all_trials == SelectSeq([i \in DOMAIN rKeys.trial_list |->
                                        rTrial[rKeys.trial_list[i]]],
                                   LAMBDA t : t.state = "COMPLETE")
       IN IF all_trials = <<>>
          THEN Done(w, "ValueError")
          ELSE /\ loc' = [loc EXCEPT ![w].all_trials = all_trials]
               /\ Goto(w, "gbt_dirs")
               /\ UNCHANGED ret
    /\ UNCHANGED <<now, storeVars, memVars, cache, redisVars, args, ncalls>>

\* max(all_trials, key=value) or min(all_trials, key=value): the first of the best.
Redis_best_of(all_trials, direction) ==
    LET better(a, b) == IF direction = "MAXIMIZE" THEN a > b ELSE a < b
        i == CHOOSE i \in 1..Len(all_trials) :
                 /\ \A j \in 1..Len(all_trials) :
                        ~better(all_trials[j].values[1], all_trials[i].values[1])
                 /\ \A j \in 1..(i - 1) :
                        better(all_trials[i].values[1], all_trials[j].values[1])
    IN IF Len(all_trials) = 1 THEN Head(all_trials) ELSE all_trials[i]

\* get_best_trial, no best_trial_id: get_study_directions, the single-objective
\* test, the best of the COMPLETE trials (a comparison with a value None raises).
Redis_get_best_trial_directions(w) ==
    /\ pc[w] = "gbt_dirs"
    /\ IF Len(rDirs) > 1
       THEN Done(w, "ValueError")
       ELSE IF /\ Len(loc[w].all_trials) > 1
               /\ \E i \in 1..Len(loc[w].all_trials) : loc[w].all_trials[i].values = <<>>
       THEN Done(w, "TypeError")
       ELSE /\ loc' = [loc EXCEPT ![w].trial = Redis_best_of(loc[w].all_trials, rDirs[1])]
            /\ Goto(w, "gbt_set")
            /\ UNCHANGED ret
    /\ UNCHANGED <<now, storeVars, memVars, cache, redisVars, args, ncalls>>

\* get_best_trial, no best_trial_id: _set_best_trial(study_id, best_trial.number).
Redis_get_best_trial_set(w) ==
    /\ pc[w] = "gbt_set"
    /\ rBest' = <<loc[w].trial.number>>
    /\ DoneTrial(w, loc[w].trial)
    /\ UNCHANGED <<now, storeVars, memVars, cache, rTrial, rDist, rHb, rDirs, rKeys, args, ncalls>>

\* get_best_trial, a best_trial_id: GET best_trial_id.
Redis_get_best_trial_get(w) ==
    /\ pc[w] = "gbt_get"
    /\ loc' = [loc EXCEPT ![w].best_trial_id = rBest]
    /\ Goto(w, "gbt_trial")
    /\ UNCHANGED <<now, storeVars, memVars, cache, redisVars, args, ret, ncalls>>

\* get_best_trial, a best_trial_id: get_trial(best_trial_id).
Redis_get_best_trial_trial(w) ==
    /\ pc[w] = "gbt_trial"
    /\ DoneTrial(w, rTrial[loc[w].best_trial_id[1]])
    /\ UNCHANGED <<now, storeVars, memVars, cache, redisVars, args, ncalls>>

----------------------------------------------------------------------------
(* InMemoryStorage.  Every method runs under self._lock: one step.  There is   *)
(* one study, so a trial's id is its number.                                 *)

\* _get_trial.
Mem_get_trial(trials, trial_id) == trials[trial_id + 1]

\* The ids of the study's trials.
MemTrialIds == 0..(Len(mTrials) - 1)

\* _update_cache: the best_trial_id after trial_id changed, and whether the
\* assertion on the new trial's value failed.
Mem_update_cache(trials, best, dirs, trial_id) ==
    LET trial == Mem_get_trial(trials, trial_id)
    IN IF trial.state # "COMPLETE" THEN [best |-> best, error |-> FALSE]
       ELSE IF best = <<>> THEN [best |-> <<trial_id>>, error |-> FALSE]
       ELSE IF Len(dirs) > 1 THEN [best |-> best, error |-> FALSE]
       ELSE LET best_trial == Mem_get_trial(trials, best[1])
            IN IF best_trial.values = <<>> THEN [best |-> <<trial_id>>, error |-> FALSE]
               ELSE IF trial.values = <<>> THEN [best |-> best, error |-> TRUE]
               ELSE LET best_value == best_trial.values[1]
                        new_value == trial.values[1]
                    IN IF dirs[1] = "MAXIMIZE"
                       THEN [best |-> IF best_value < new_value THEN <<trial_id>> ELSE best,
                             error |-> FALSE]
                       ELSE [best |-> IF best_value > new_value THEN <<trial_id>> ELSE best,
                             error |-> FALSE]

\* set_trial_state: the copy of the trial it stores.
Mem_set_trial_state_trial(trial, state, time) ==
    [trial EXCEPT !.state = state,
                  !.datetime_start = IF state = "RUNNING" THEN <<time>> ELSE @,
                  !.datetime_complete = IF is_finished(state) THEN <<time>> ELSE @]

\* set_trial_state that accepts RUNNING whatever the trial's state is.
Mem_set_trial_state_result_unchecked(trial, state) ==
    IF is_finished(trial.state) THEN "NotUpdatable" ELSE "True"

\* set_trial_state: how the call ends for a trial and a requested state, the
\* assertion of _update_cache aside.
Mem_set_trial_state_result(trial, state) ==
    IF is_finished(trial.state) THEN "NotUpdatable"
    ELSE IF state = "RUNNING" /\ trial.state # "WAITING" THEN "False"
    ELSE "True"

\* set_trial_state, as a function of the storage: how the call ends and what it
\* leaves in _trials and best_trial_id.
Mem_set_trial_state_op(trial_id, state) ==
    LET trial == Mem_get_trial(mTrials, trial_id)
        r == Mem_set_trial_state_result(trial, state)
        trials == [mTrials EXCEPT ![trial_id + 1] =
                      Mem_set_trial_state_trial(trial, state, now)]
        uc == Mem_update_cache(trials, mBest, mDirs, trial_id)
    IN IF r # "True"
       THEN [result |-> r, trials |-> mTrials, best |-> mBest]
       ELSE [result |-> IF is_finished(state) /\ uc.error THEN "AssertionError" ELSE "True",
             trials |-> trials,
             best |-> IF is_finished(state) THEN uc.best ELSE mBest]

\* set_trial_state.
Mem_set_trial_state(w) ==
    /\ pc[w] = "set_trial_state"
    /\ LET o == Mem_set_trial_state_op(args[w].trial_id, args[w].state)
       IN /\ mTrials' = o.trials
          /\ mBest' = o.best
          /\ Done(w, o.result)
    /\ UNCHANGED <<now, storeVars, redisVars, mDist, mDirs, cache, args, ncalls>>

\* check_trial_is_updatable, the change of the copied trial, _set_trial: how the
\* call ends and what it leaves in _trials.
Mem_write_op(trial_id, trial) ==
    IF is_finished(Mem_get_trial(mTrials, trial_id).state)
    THEN [result |-> "NotUpdatable", trials |-> mTrials]
    ELSE [result |-> "None", trials |-> [mTrials EXCEPT ![trial_id + 1] = trial]]

\* A write of one field of a trial.
Mem_write(w, label, trial) ==
    /\ pc[w] = label
    /\ LET o == Mem_write_op(args[w].trial_id, trial)
       IN mTrials' = o.trials /\ Done(w, o.result)
    /\ UNCHANGED <<now, storeVars, redisVars, mDist, mBest, mDirs, cache, args, ncalls>>

\* set_trial_param, as a function of the storage.
\* set_trial_param without the test of the distribution against the registry.
Mem_set_trial_param_op_unchecked(a) ==
    LET trial == Mem_get_trial(mTrials, a.trial_id)
    IN IF is_finished(trial.state)
       THEN [result |-> "NotUpdatable", trials |-> mTrials, dist |-> mDist]
       ELSE [result |-> "None",
             trials |-> [mTrials EXCEPT ![a.trial_id + 1] =
                 [trial EXCEPT
                     !.params = Put(@, a.name, to_external_repr(a.dist, a.value)),
                     !.distributions = Put(@, a.name, a.dist)]],
             dist |-> Put(mDist, a.name, a.dist)]

Mem_set_trial_param_op(a) ==
    LET trial == Mem_get_trial(mTrials, a.trial_id)
    IN IF is_finished(trial.state)
       THEN [result |-> "NotUpdatable", trials |-> mTrials, dist |-> mDist]
       ELSE IF /\ a.name \in DOMAIN mDist
               /\ ~check_distribution_compatibility(mDist[a.name], a.dist)
       THEN [result |-> "ValueError", trials |-> mTrials, dist |-> mDist]
       ELSE [result |-> "None",
             trials |-> [mTrials EXCEPT ![a.trial_id + 1] =
                 [trial EXCEPT
                     !.params = Put(@, a.name, to_external_repr(a.dist, a.value)),
                     !.distributions = Put(@, a.name, a.dist)]],
             dist |-> Put(mDist, a.name, a.dist)]

\* set_trial_param.
Mem_set_trial_param(w) ==
    /\ pc[w] = "set_trial_param"
    /\ LET o == Mem_set_trial_param_op(args[w])
       IN mTrials' = o.trials /\ mDist' = o.dist /\ Done(w, o.result)
    /\ UNCHANGED <<now, storeVars, redisVars, mBest, mDirs, cache, args, ncalls>>

\* set_trial_values: the trial it stores.
Mem_set_trial_values_trial(a) ==
    [Mem_get_trial(mTrials, a.trial_id) EXCEPT !.values = <<a.value>>]

\* set_trial_intermediate_value: the trial it stores.
Mem_set_trial_intermediate_value_trial(a) ==
    [Mem_get_trial(mTrials, a.trial_id) EXCEPT
        !.intermediate_values = Put(@, a.step, a.value)]

\* set_trial_user_attr: the trial it stores.
Mem_set_trial_user_attr_trial(a) ==
    [Mem_get_trial(mTrials, a.trial_id) EXCEPT !.user_attrs = Put(@, a.key, a.value)]

\* set_trial_system_attr: the trial it stores.
Mem_set_trial_system_attr_trial(a) ==
    [Mem_get_trial(mTrials, a.trial_id) EXCEPT !.system_attrs = Put(@, a.key, a.value)]

Mem_set_trial_values(w) ==
    Mem_write(w, "set_trial_values", Mem_set_trial_values_trial(args[w]))

Mem_set_trial_intermediate_value(w) ==
    Mem_write(w, "set_trial_intermediate_value",
              Mem_set_trial_intermediate_value_trial(args[w]))

Mem_set_trial_user_attr(w) ==
    Mem_write(w, "set_trial_user_attr", Mem_set_trial_user_attr_trial(args[w]))

Mem_set_trial_system_attr(w) ==
    Mem_write(w, "set_trial_system_attr", Mem_set_trial_system_attr_trial(args[w]))

\* create_new_trial: the trial it appends (no template: _create_running_trial; a
\* template: its copy, here of the state and the value of the arguments).
Mem_new_trial(trials, a, time) ==
    [FrozenTrial(Len(trials), Len(trials), a.state,
                 IF a.state = "WAITING" THEN <<>> ELSE <<time>>)
        EXCEPT !.values = IF a.state = "COMPLETE" THEN <<a.value>> ELSE <<>>,
               !.datetime_complete = IF is_finished(a.state) THEN <<time>> ELSE <<>>]

\* create_new_trial.
Mem_create_new_trial(w) ==
    /\ pc[w] = "create_new_trial"
    /\ LET trial == Mem_new_trial(mTrials, args[w], now)
           trials == Append(mTrials, trial)
       IN /\ mTrials' = trials
          /\ mBest' = Mem_update_cache(trials, mBest, mDirs, trial.trial_id).best
    /\ Done(w, "None")
    /\ UNCHANGED <<now, storeVars, redisVars, mDist, mDirs, cache, args, ncalls>>

\* set_study_directions, as a function of the storage: how the call ends and the
\* directions it leaves.
Mem_set_study_directions_op(directions) ==
    IF mDirs[1] # "NOT_SET" /\ mDirs # directions
    THEN [result |-> "ValueError", directions |-> mDirs]
    ELSE [result |-> "None", directions |-> directions]

\* set_study_directions.
Mem_set_study_directions(w) ==
    /\ pc[w] = "set_study_directions"
    /\ LET o == Mem_set_study_directions_op(args[w].directions)
       IN mDirs' = o.directions /\ Done(w, o.result)
    /\ UNCHANGED <<now, storeVars, redisVars, mTrials, mDist, mBest, cache, args, ncalls>>

----------------------------------------------------------------------------
(* _CachedStorage over a backend that behaves as InMemoryStorage does.  Worker *)
(* w calls through its own wrapper, whose _StudyInfo is cache[w].  A step is   *)
(* one call of the backend with the wrapper's work on its cache around it.    *)

\* _TrialUpdate.__init__: <<>> is None.
NoUpdate == [state |-> <<>>, values |-> <<>>, intermediate_values |-> EmptyMap,
             user_attrs |-> EmptyMap, system_attrs |-> EmptyMap, params |-> EmptyMap,
             distributions |-> EmptyMap, datetime_complete |-> <<>>,
             datetime_start |-> <<>>]

\* dict.update.
Merge(f, g) ==
    [k \in (DOMAIN f) \cup (DOMAIN g) |-> IF k \in DOMAIN g THEN g[k] ELSE f[k]]

\* del d[k].
Remove(f, k) == [x \in (DOMAIN f) \ {k} |-> f[x]]

\* The backend's merged update: the fields given are applied as one unit.  A
\* finished trial is not updatable; RUNNING is refused to a trial that is not
\* WAITING; a trial that becomes COMPLETE takes part in the best trial.
Backend_update_trial(trial_id, u) ==
    LET trial == Mem_get_trial(mTrials, trial_id)
        new == [trial EXCEPT
                  !.state = IF u.state = <<>> THEN @ ELSE u.state[1],
                  !.values = IF u.values = <<>> THEN @ ELSE u.values,
                  !.intermediate_values = Merge(@, u.intermediate_values),
                  !.params = Merge(@, [n \in DOMAIN u.params |->
                                 to_external_repr(u.distributions[n], u.params[n])]),
                  !.distributions = Merge(@, u.distributions),
                  !.user_attrs = Merge(@, u.user_attrs),
                  !.system_attrs = Merge(@, u.system_attrs),
                  !.datetime_start = IF u.datetime_start = <<>> THEN @ ELSE u.datetime_start,
                  !.datetime_complete =
                      IF u.datetime_complete = <<>> THEN @ ELSE u.datetime_complete]
        trials == [mTrials EXCEPT ![trial_id + 1] = new]
    IN IF is_finished(trial.state)
       THEN [result |-> "NotUpdatable", trials |-> mTrials, best |-> mBest]
       ELSE IF u.state = <<"RUNNING">> /\ trial.state # "WAITING"
       THEN [result |-> "False", trials |-> mTrials, best |-> mBest]
       ELSE [result |-> "True", trials |-> trials,
             best |-> IF u.state # <<>> /\ is_finished(new.state)
                      THEN Mem_update_cache(trials, mBest, mDirs, trial_id).best
                      ELSE mBest]

\* The backend's atomic register-and-check of a parameter's distribution, which
\* commits the parameter's value too: first writer wins, an incompatible later
\* writer fails.
Backend_check_and_set_param_distribution(a) == Mem_set_trial_param_op(a)

\* The backend's scan of the study's trials but the excluded ones.
Backend_get_trials(excluded_trial_ids) == MemTrialIds \ excluded_trial_ids

\* _get_cached_trial: <<>> is None.
Cached_get_cached_trial(c, trial_id) ==
    IF trial_id \in c.ids /\ trial_id \in c.owned_or_finished_trial_ids
    THEN <<c.trials[trial_id]>>
    ELSE <<>>

\* _get_updates that forgets the updates made before.
Cached_get_updates_fresh(c, trial_id) == NoUpdate

\* _get_updates.
Cached_get_updates(c, trial_id) ==
    IF trial_id \in DOMAIN c.updates THEN c.updates[trial_id] ELSE NoUpdate

\* _flush_trial that keeps the pending updates it has sent.
Cached_flush_trial_keep(c, trial_id) ==
    IF trial_id \notin c.ids \/ trial_id \notin DOMAIN c.updates
    THEN [cache |-> c, result |-> "True", trials |-> mTrials, best |-> mBest,
          backend_calls |-> 0]
    ELSE LET o == Backend_update_trial(trial_id, c.updates[trial_id])
         IN [cache |-> c, result |-> o.result, trials |-> o.trials, best |-> o.best,
             backend_calls |-> 1]

\* _flush_trial: what it leaves in the cache and the backend, how it ends, and
\* the number of backend calls it makes.
Cached_flush_trial(c, trial_id) ==
    IF trial_id \notin c.ids \/ trial_id \notin DOMAIN c.updates
    THEN [cache |-> c, result |-> "True", trials |-> mTrials, best |-> mBest,
          backend_calls |-> 0]
    ELSE LET o == Backend_update_trial(trial_id, c.updates[trial_id])
         IN [cache |-> [c EXCEPT !.updates = Remove(@, trial_id)],
             result |-> o.result, trials |-> o.trials, best |-> o.best,
             backend_calls |-> 1]

\* A call of _flush_trial.
Cached_flush(w) ==
    /\ pc[w] = "_flush_trial"
    /\ LET o == Cached_flush_trial(cache[w], args[w].trial_id)
       IN /\ cache' = [cache EXCEPT ![w] = o.cache]
          /\ mTrials' = o.trials
          /\ mBest' = o.best
          /\ pc' = [pc EXCEPT ![w] = "done"]
          /\ ret' = [ret EXCEPT ![w] = o.result]
          /\ loc' = [loc EXCEPT ![w] = [NoLoc EXCEPT !.backend_calls = o.backend_calls]]
    /\ UNCHANGED <<now, storeVars, redisVars, mDist, mDirs, args, ncalls>>

\* _add_trials_to_cache, for the trials of the given ids as the backend has them.
Cached_add_trials_to_cache(c, trial_ids) ==
    [c EXCEPT !.ids = @ \cup trial_ids,
              !.trials = Merge(@, [t \in trial_ids |-> Mem_get_trial(mTrials, t)])]

\* What a method that returns None makes of the result of a flush or backend call.
NoneUnlessRaised(r) == IF r \in {"True", "False"} THEN "None" ELSE r

\* set_trial_state.  A trial that is not cached goes to the backend; if that claims
\* the trial for a wrapper that knows it, the wrapper caches it in the next step.
Cached_set_trial_state(w) ==
    /\ pc[w] = "set_trial_state"
    /\ LET c == cache[w]
           trial_id == args[w].trial_id
           state == args[w].state
           cached_trial == Cached_get_cached_trial(c, trial_id)
       IN IF cached_trial # <<>>
          THEN IF cached_trial[1].state = "WAITING"
               THEN Done(w, "AssertionError") /\ UNCHANGED <<cache, mTrials, mBest>>
               ELSE IF is_finished(cached_trial[1].state)
               THEN Done(w, "NotUpdatable") /\ UNCHANGED <<cache, mTrials, mBest>>
               ELSE LET trial == [cached_trial[1] EXCEPT
                                    !.state = state,
                                    !.datetime_complete =
                                        IF is_finished(state) THEN <<now>> ELSE @]
                        updates == [Cached_get_updates(c, trial_id) EXCEPT
                                      !.state = <<state>>,
                                      !.datetime_complete =
                                          IF is_finished(state) THEN <<now>> ELSE @]
                        o == Cached_flush_trial(
                                 [c EXCEPT !.trials = Put(@, trial_id, trial),
                                           !.updates = Put(@, trial_id, updates)],
                                 trial_id)
                    IN /\ cache' = [cache EXCEPT ![w] = o.cache]
                       /\ mTrials' = o.trials
                       /\ mBest' = o.best
                       /\ Done(w, o.result)
          ELSE LET o == Mem_set_trial_state_op(trial_id, state)
               IN /\ mTrials' = o.trials
                  /\ mBest' = o.best
                  /\ UNCHANGED cache
                  /\ IF o.result = "True" /\ state = "RUNNING" /\ trial_id \in c.ids
                     THEN Goto(w, "sts_cache") /\ UNCHANGED <<ret, loc>>
                     ELSE Done(w, o.result)
    /\ UNCHANGED <<now, storeVars, redisVars, mDist, mDirs, args, ncalls>>

\* set_trial_state: the wrapper that claimed the trial reads it and caches it.
Cached_set_trial_state_cache(w) ==
    /\ pc[w] = "sts_cache"
    /\ cache' = [cache EXCEPT ![w] =
                    [Cached_add_trials_to_cache(@, {args[w].trial_id}) EXCEPT
                        !.owned_or_finished_trial_ids = @ \cup {args[w].trial_id}]]
    /\ Done(w, "True")
    /\ UNCHANGED <<now, storeVars, redisVars, memVars, args, ncalls>>

\* The cached snapshot of a trial, for a trial that is cached.
Cached_trial(c, trial_id) ==
    IF trial_id \in DOMAIN c.trials THEN c.trials[trial_id] ELSE NoTrial

\* A write of one field: on a cached trial, the test of its state, the change of the snapshot
\* and of the pending updates and, for the methods that flush, the flush; on
\* another trial, the backend's method, whose outcome is backend.
Cached_write(w, label, trial, updates, flush, backend) ==
    /\ pc[w] = label
    /\ LET c == cache[w]
           trial_id == args[w].trial_id
           cached_trial == Cached_get_cached_trial(c, trial_id)
           c1 == [c EXCEPT !.trials = Put(@, trial_id, trial),
                           !.updates = Put(@, trial_id, updates)]
           o == IF flush THEN Cached_flush_trial(c1, trial_id)
                ELSE [cache |-> c1, result |-> "True", trials |-> mTrials, best |-> mBest,
                      backend_calls |-> 0]
       IN IF cached_trial # <<>>
          THEN IF is_finished(cached_trial[1].state)
               THEN Done(w, "NotUpdatable") /\ UNCHANGED <<cache, mTrials, mBest>>
               ELSE /\ cache' = [cache EXCEPT ![w] = o.cache]
                    /\ mTrials' = o.trials
                    /\ mBest' = o.best
                    /\ Done(w, NoneUnlessRaised(o.result))
          ELSE /\ mTrials' = backend.trials
               /\ mBest' = backend.best
               /\ UNCHANGED cache
               /\ Done(w, NoneUnlessRaised(backend.result))
    /\ UNCHANGED <<now, storeVars, redisVars, mDist, mDirs, args, ncalls>>

\* set_trial_values: the values wait in the pending updates for the next flush.
Cached_set_trial_values(w) ==
    LET c == cache[w]
        a == args[w]
    IN Cached_write(w, "set_trial_values",
           [Cached_trial(c, a.trial_id) EXCEPT !.values = <<a.value>>],
           [Cached_get_updates(c, a.trial_id) EXCEPT !.values = <<a.value>>],
           FALSE,
           Backend_update_trial(a.trial_id, [NoUpdate EXCEPT !.values = <<a.value>>]))

\* set_trial_intermediate_value.
Cached_set_trial_intermediate_value(w) ==
    LET c == cache[w]
        a == args[w]
        o == Mem_write_op(a.trial_id, Mem_set_trial_intermediate_value_trial(a))
    IN Cached_write(w, "set_trial_intermediate_value",
           [Cached_trial(c, a.trial_id) EXCEPT
               !.intermediate_values = Put(@, a.step, a.value)],
           [Cached_get_updates(c, a.trial_id) EXCEPT
               !.intermediate_values = Put(@, a.step, a.value)],
           TRUE,
           [result |-> o.result, trials |-> o.trials, best |-> mBest])

\* set_trial_user_attr.
Cached_set_trial_user_attr(w) ==
    LET c == cache[w]
        a == args[w]
    IN Cached_write(w, "set_trial_user_attr",
           [Cached_trial(c, a.trial_id) EXCEPT !.user_attrs = Put(@, a.key, a.value)],
           [Cached_get_updates(c, a.trial_id) EXCEPT !.user_attrs = Put(@, a.key, a.value)],
           TRUE,
           Backend_update_trial(a.trial_id,
               [NoUpdate EXCEPT !.user_attrs = Put(@, a.key, a.value)]))

\* set_trial_system_attr.
Cached_set_trial_system_attr(w) ==
    LET c == cache[w]
        a == args[w]
    IN Cached_write(w, "set_trial_system_attr",
           [Cached_trial(c, a.trial_id) EXCEPT !.system_attrs = Put(@, a.key, a.value)],
           [Cached_get_updates(c, a.trial_id) EXCEPT !.system_attrs = Put(@, a.key, a.value)],
           TRUE,
           Backend_update_trial(a.trial_id,
               [NoUpdate EXCEPT !.system_attrs = Put(@, a.key, a.value)]))

\* set_trial_param on a cache miss, after the backend took the parameter, and
\* with the parameter added to the pending updates as well.
Cached_param_persisted_and_pending(c, a, trial) ==
    [c EXCEPT !.param_distribution = Put(@, a.name, a.dist),
              !.trials = Put(@, a.trial_id, trial),
              !.updates = Put(@, a.trial_id,
                              [Cached_get_updates(c, a.trial_id) EXCEPT
                                  !.params = Put(@, a.name, a.value),
                                  !.distributions = Put(@, a.name, a.dist)])]

\* set_trial_param on a cache miss, after the backend took the parameter: the
\* wrapper records the distribution and changes the snapshot.
Cached_param_persisted(c, a, trial) ==
    [c EXCEPT !.param_distribution = Put(@, a.name, a.dist),
              !.trials = Put(@, a.trial_id, trial)]

\* set_trial_param.  A parameter whose distribution the wrapper has cached is
\* checked against it, buffered and flushed; one it has not goes to the backend's
\* register-and-check at once.
Cached_set_trial_param(w) ==
    /\ pc[w] = "set_trial_param"
    /\ LET c == cache[w]
           a == args[w]
           cached_trial == Cached_get_cached_trial(c, a.trial_id)
           trial == [Cached_trial(c, a.trial_id) EXCEPT
                       !.params = Put(@, a.name, to_external_repr(a.dist, a.value)),
                       !.distributions = Put(@, a.name, a.dist)]
           updates == [Cached_get_updates(c, a.trial_id) EXCEPT
                         !.params = Put(@, a.name, a.value),
                         !.distributions = Put(@, a.name, a.dist)]
           flushed == Cached_flush_trial(
                          [c EXCEPT !.trials = Put(@, a.trial_id, trial),
                                    !.updates = Put(@, a.trial_id, updates)],
                          a.trial_id)
           checked == Backend_check_and_set_param_distribution(a)
           direct == Mem_set_trial_param_op(a)
       IN IF cached_trial = <<>>
          THEN /\ mTrials' = direct.trials
               /\ mDist' = direct.dist
               /\ Done(w, direct.result)
               /\ UNCHANGED <<cache, mBest>>
          ELSE IF is_finished(cached_trial[1].state)
          THEN Done(w, "NotUpdatable") /\ UNCHANGED <<cache, mTrials, mDist, mBest>>
          ELSE IF a.name \in DOMAIN c.param_distribution
          THEN IF ~check_distribution_compatibility(c.param_distribution[a.name], a.dist)
               THEN Done(w, "ValueError") /\ UNCHANGED <<cache, mTrials, mDist, mBest>>
               ELSE /\ cache' = [cache EXCEPT ![w] = flushed.cache]
                    /\ mTrials' = flushed.trials
                    /\ mBest' = flushed.best
                    /\ Done(w, NoneUnlessRaised(flushed.result))
                    /\ UNCHANGED mDist
          ELSE IF checked.result # "None"
          THEN Done(w, checked.result) /\ UNCHANGED <<cache, mTrials, mDist, mBest>>
          ELSE /\ mTrials' = checked.trials
               /\ mDist' = checked.dist
               /\ cache' = [cache EXCEPT ![w] = Cached_param_persisted(c, a, trial)]
               /\ Done(w, "None")
               /\ UNCHANGED mBest
    /\ UNCHANGED <<now, storeVars, redisVars, mDirs, args, ncalls>>

\* create_new_trial: the backend creates the trial; the wrapper caches it and owns
\* it unless it is WAITING.
Cached_create_new_trial(w) ==
    /\ pc[w] = "create_new_trial"
    /\ LET frozen_trial == Mem_new_trial(mTrials, args[w], now)
           trials == Append(mTrials, frozen_trial)
           trial_id == frozen_trial.trial_id
       IN /\ mTrials' = trials
          /\ mBest' = Mem_update_cache(trials, mBest, mDirs, trial_id).best
          /\ cache' = [cache EXCEPT ![w] =
                [@ EXCEPT !.known = TRUE,
                          !.ids = @ \cup {trial_id},
                          !.trials = Put(@, frozen_trial.number, frozen_trial),
                          !.owned_or_finished_trial_ids =
                              IF frozen_trial.state # "WAITING"
                              THEN @ \cup {trial_id} ELSE @]]
    /\ Done(w, "None")
    /\ UNCHANGED <<now, storeVars, redisVars, mDist, mDirs, args, ncalls>>

\* read_trials_from_remote_storage: what it leaves in the cache.
Cached_read_trials(c) ==
    LET trials == Backend_get_trials(c.owned_or_finished_trial_ids)
    IN [Cached_add_trials_to_cache(c, trials) EXCEPT
           !.known = TRUE,
           !.owned_or_finished_trial_ids =
               @ \cup {t \in trials : is_finished(Mem_get_trial(mTrials, t).state)}]

\* read_trials_from_remote_storage.
Cached_read_trials_from_remote_storage(w) ==
    /\ pc[w] = "read_trials_from_remote_storage"
    /\ cache' = [cache EXCEPT ![w] = Cached_read_trials(@)]
    /\ Done(w, "None")
    /\ UNCHANGED <<now, storeVars, redisVars, memVars, args, ncalls>>

\* get_trial: the cached snapshot of a trial that is cached, the backend's trial
\* otherwise; the call returns the trial and here the number of backend calls made.
Cached_get_trial(w) ==
    /\ pc[w] = "get_trial"
    /\ LET trial == Cached_get_cached_trial(cache[w], args[w].trial_id)
       IN /\ pc' = [pc EXCEPT ![w] = "done"]
          /\ ret' = [ret EXCEPT ![w] = "trial"]
          /\ loc' = [loc EXCEPT ![w] =
                IF trial # <<>>
                THEN [NoLoc EXCEPT !.trial = trial[1]]
                ELSE [NoLoc EXCEPT !.trial = Mem_get_trial(mTrials, args[w].trial_id),
                                   !.backend_calls = @ + 1]]
    /\ UNCHANGED <<now, storeVars, redisVars, memVars, cache, args, ncalls>>

\* sorted(..., key=lambda t: t.number), of a set of numbers.
RECURSIVE SortedNumbers(_)
SortedNumbers(S) ==
    IF S = {} THEN <<>>
    ELSE LET m == CHOOSE x \in S : \A y \in S : x <= y
         IN <<m>> \o SortedNumbers(S \ {m})

\* get_all_trials: it reads the backend only for a study the wrapper has not heard
\* of; it returns the cached trials sorted by number, here their numbers.
Cached_get_all_trials(w) ==
    /\ pc[w] = "get_all_trials"
    /\ LET c == IF cache[w].known THEN cache[w] ELSE Cached_read_trials(cache[w])
       IN /\ cache' = [cache EXCEPT ![w] = c]
          /\ pc' = [pc EXCEPT ![w] = "done"]
          /\ ret' = [ret EXCEPT ![w] = "list"]
          /\ loc' = [loc EXCEPT ![w] =
                [NoLoc EXCEPT !.result =
                    SortedNumbers({c.trials[n].number : n \in DOMAIN c.trials})]]
    /\ UNCHANGED <<now, storeVars, redisVars, memVars, args, ncalls>>

\* set_study_directions: a wrapper that knows the study answers a call with the
\* directions it has cached itself, sets its cached directions before the backend's
\* if it has none, and leaves every other call to the backend.
Cached_set_study_directions(w) ==
    /\ pc[w] = "set_study_directions"
    /\ LET c == cache[w]
           directions == args[w].directions
           o == Mem_set_study_directions_op(directions)
       IN IF c.known /\ directions = c.directions
          THEN Done(w, "None") /\ UNCHANGED <<cache, mDirs>>
          ELSE /\ mDirs' = o.directions
               /\ Done(w, o.result)
               /\ cache' = IF c.known /\ c.directions = <<"NOT_SET">>
                           THEN [cache EXCEPT ![w].directions = directions]
                           ELSE cache
    /\ UNCHANGED <<now, storeVars, redisVars, mTrials, mDist, mBest, args, ncalls>>

----------------------------------------------------------------------------
(* RedisStorage: workers race to claim WAITING trials. *)

\* No storage with several studies is in use.
InitNoStore ==
    /\ mStore = EmptyMap
    /\ cStore = EmptyMap
    /\ lock = 0

InitWorkers ==
    /\ pc = [w \in Workers |-> "idle"]
    /\ args = [w \in Workers |-> NoArgs]
    /\ loc = [w \in Workers |-> NoLoc]
    /\ ret = [w \in Workers |-> "none"]
    /\ ncalls = [w \in Workers |-> 0]

\* No InMemoryStorage and no wrapper is in use.
InitNoMem ==
    /\ mTrials = <<>>
    /\ mDist = EmptyMap
    /\ mBest = <<>>
    /\ mDirs = <<"NOT_SET">>
    /\ cache = [w \in Workers |-> NoCache]

\* A study whose trials were all created WAITING (create_new_trial with a template).
InitRedisWaiting ==
    /\ now = 0
    /\ rTrial = [t \in TrialIds |-> FrozenTrial(t, t, "WAITING", <<>>)]
    /\ rDist = EmptyMap
    /\ rHb = EmptyMap
    /\ rBest = <<>>
    /\ rDirs = <<"MINIMIZE">>
    /\ rKeys = StudyKeys(NTrials)
    /\ InitWorkers
    /\ InitNoStore
    /\ InitNoMem

NextRedisClaim ==
    \/ Tick
    \/ \E w \in Workers :
        \/ \E t \in TrialIds : BeginCounted(w, SetStateArgs(t, "RUNNING"))
        \/ Redis_set_trial_state_get(w)
        \/ Redis_set_trial_state_set(w)

SpecRedisClaim == InitRedisWaiting /\ [][NextRedisClaim]_vars

\* C1: when the workers have all called set_trial_state(t, RUNNING) on the same
\* WAITING trial t and every call has ended, exactly one call returned True and every
\* other call returned False.
C1_ExactlyOneClaimReturnsTrue ==
    \A t \in TrialIds :
        (\A w \in Workers : pc[w] = "done" /\ args[w] = SetStateArgs(t, "RUNNING"))
        => /\ Cardinality({w \in Workers : ret[w] = "True"}) = 1
           /\ \A w \in Workers : ret[w] \in {"True", "False"}

----------------------------------------------------------------------------
(* RedisStorage: workers race to set a parameter. *)

\* A study whose trials were all created RUNNING (create_new_trial without template).
InitRedisRunning ==
    /\ now = 0
    /\ rTrial = [t \in TrialIds |-> FrozenTrial(t, t, "RUNNING", <<0>>)]
    /\ rDist = EmptyMap
    /\ rHb = EmptyMap
    /\ rBest = <<>>
    /\ rDirs = <<"MINIMIZE">>
    /\ rKeys = StudyKeys(NTrials)
    /\ InitWorkers
    /\ InitNoStore
    /\ InitNoMem

NextRedisParam ==
    \E w \in Workers :
        \/ \E t \in TrialIds, n \in ParamNames, v \in InternalValues, d \in Distributions :
               BeginCounted(w, SetParamArgs(t, n, v, d))
        \/ Redis_set_trial_param_check(w)
        \/ Redis_set_trial_param_distribution(w)
        \/ Redis_set_trial_param_get(w)
        \/ Redis_set_trial_param_execute(w)

SpecRedisParam == InitRedisRunning /\ [][NextRedisParam]_vars

\* C6: when two workers have called set_trial_param for the same parameter name, not
\* registered in the study before, with mutually incompatible distributions, and both
\* calls have ended, exactly one call succeeded and the other raised the
\* distribution-conflict error.
C6_OneFirstWriterWins ==
    \A w1, w2 \in Workers :
        (/\ w1 # w2
         /\ pc[w1] = "done" /\ pc[w2] = "done"
         /\ args[w1].op = "set_trial_param" /\ args[w2].op = "set_trial_param"
         /\ args[w1].name = args[w2].name
         /\ ~check_distribution_compatibility(args[w1].dist, args[w2].dist))
        => \/ ret[w1] = "None" /\ ret[w2] = "ValueError"
           \/ ret[w1] = "ValueError" /\ ret[w2] = "None"

----------------------------------------------------------------------------
(* RedisStorage: heartbeats and the reclamation of stale trials. *)

\* A study whose trials were created RUNNING at time 0, each with a heartbeat of
\* that time (record_heartbeat by its owner).
InitRedisHeartbeat ==
    /\ now = 0
    /\ rTrial = [t \in TrialIds |-> FrozenTrial(t, t, "RUNNING", <<0>>)]
    /\ rDist = EmptyMap
    /\ rHb = [t \in TrialIds |-> 0]
    /\ rBest = <<>>
    /\ rDirs = <<"MINIMIZE">>
    /\ rKeys = StudyKeys(NTrials)
    /\ InitWorkers
    /\ InitNoStore
    /\ InitNoMem

\* The worker that calls fail_stale_trials; each other worker runs one trial and
\* sends the heartbeats of that trial.
Reclaimer == CHOOSE w \in Workers : \A v \in Workers : w <= v
OwnedTrial(w) == (w - 1) % NTrials

Redis_fail_stale_trials_steps(w) ==
    \/ Redis_get_stale_trial_ids_time(w)
    \/ Redis_get_stale_trial_ids_hgetall(w)
    \/ Redis_fail_stale_trials_loop(w)
    \/ Redis_set_trial_state_get(w)
    \/ Redis_set_trial_state_set(w)
    \/ Redis_update_cache_get(w)
    \/ Redis_set_trial_state_hdel(w)

Redis_record_heartbeat_steps(w) ==
    \/ Redis_record_heartbeat_time(w)
    \/ Redis_record_heartbeat_hset(w)

\* The owners only send heartbeats; the reclaimer fails the stale trials, in one call.
NextRedisStale ==
    \/ Tick
    \/ ncalls[Reclaimer] = 0 /\ BeginCounted(Reclaimer, FailStaleArgs)
    \/ \E w \in Workers \ {Reclaimer} : BeginCounted(w, HeartbeatArgs(OwnedTrial(w)))
    \/ \E w \in Workers :
        \/ Redis_fail_stale_trials_steps(w)
        \/ Redis_record_heartbeat_steps(w)

SpecRedisStale == InitRedisHeartbeat /\ [][NextRedisStale]_vars

\* Owners send heartbeats and finish their trials while any worker reclaims.
NextRedisHeartbeat ==
    \/ Tick
    \/ \E w \in Workers :
        \/ BeginCounted(w, FailStaleArgs)
        \/ \E t \in TrialIds : BeginCounted(w, HeartbeatArgs(t))
        \/ \E t \in TrialIds, s \in {"COMPLETE", "FAIL"} : BeginCounted(w, SetStateArgs(t, s))
        \/ Redis_fail_stale_trials_steps(w)
        \/ Redis_record_heartbeat_steps(w)
        \/ Redis_update_cache_directions(w)
        \/ Redis_update_cache_exists(w)
        \/ Redis_update_cache_best(w)
        \/ Redis_set_best_trial(w)

SpecRedisHeartbeat == InitRedisHeartbeat /\ [][NextRedisHeartbeat]_vars

\* C8: a fail_stale_trials call never raises: when it has ended it has returned its
\* list of confirmed trials, also when a stale trial of its scan was finished by
\* another worker before the call reached it.
C8_FailStaleNeverRaises ==
    \A w \in Workers :
        (args[w].op = "fail_stale_trials" /\ pc[w] = "done") => ret[w] = "confirmed"

\* C9: no heartbeat is recorded for a trial that is not RUNNING; stated for the states
\* in which no call is in progress, where a heartbeat that is about to be deleted
\* does not count.
C9_NoHeartbeatUnlessRunning ==
    (\A w \in Workers : pc[w] \in {"idle", "done"})
    => \A t \in DOMAIN rHb : rTrial[t].state = "RUNNING"

\* The steps of fail_stale_trials after the scan.
AfterScan == {"fst_loop", "set_trial_state", "sts_set", "uc_get", "sts_hdel", "done"}

\* C10: with heartbeat_interval = 5 and no grace period, the scan selects exactly the
\* trials whose last heartbeat is more than 10 before the scan's time (11 is
\* selected, 10 and 9 are not); set_trial_state(FAIL) is attempted on selected trials
\* only, and when the call returns, the selected trials are FAIL and returned and
\* the others are still RUNNING.
C10_StaleScanIsExact ==
    LET w == Reclaimer
        age(t) == loc[w].time - loc[w].heartbeats[t]
    IN (args[w].op = "fail_stale_trials" /\ pc[w] \in AfterScan)
       => /\ loc[w].stale = {t \in DOMAIN loc[w].heartbeats : age(t) >= 11}
          /\ pc[w] \in {"set_trial_state", "sts_set", "uc_get", "sts_hdel"}
                => args[w].trial_id \in loc[w].stale
          /\ pc[w] = "done"
                => /\ ret[w] = "confirmed"
                   /\ loc[w].confirmed = loc[w].stale
                   /\ \A t \in TrialIds :
                        rTrial[t].state = IF t \in loc[w].stale THEN "FAIL" ELSE "RUNNING"

\* A returned call that failed a trial last seen 11 before and left alone a trial
\* last seen 9 or 10 before.
C10_Witness ==
    LET w == Reclaimer
    IN /\ args[w].op = "fail_stale_trials" /\ pc[w] = "done"
       /\ \E t1, t2 \in TrialIds :
            /\ loc[w].time - loc[w].heartbeats[t1] = 11
            /\ loc[w].time - loc[w].heartbeats[t2] \in {9, 10}
            /\ t1 \in loc[w].confirmed /\ rTrial[t1].state = "FAIL"
            /\ t2 \notin loc[w].confirmed /\ rTrial[t2].state = "RUNNING"

----------------------------------------------------------------------------
(* RedisStorage: workers write the fields of a RUNNING trial and finish it.    *)

\* The steps of set_trial_state to a finished state.
Redis_set_trial_state_steps(w) ==
    \/ Redis_set_trial_state_get(w)
    \/ Redis_set_trial_state_set(w)
    \/ Redis_update_cache_get(w)
    \/ Redis_update_cache_directions(w)
    \/ Redis_update_cache_exists(w)
    \/ Redis_update_cache_best(w)
    \/ Redis_set_best_trial(w)
    \/ Redis_set_trial_state_hdel(w)

\* The steps of the writes of a trial's fields.
Redis_write_steps(w) ==
    \/ Redis_set_trial_param_check(w)
    \/ Redis_set_trial_param_distribution(w)
    \/ Redis_set_trial_param_get(w)
    \/ Redis_set_trial_param_execute(w)
    \/ Redis_set_trial_values_get(w)
    \/ Redis_set_trial_values_set(w)
    \/ Redis_set_trial_intermediate_value_get(w)
    \/ Redis_set_trial_intermediate_value_set(w)
    \/ Redis_set_trial_user_attr_get(w)
    \/ Redis_set_trial_user_attr_set(w)
    \/ Redis_set_trial_system_attr_get(w)
    \/ Redis_set_trial_system_attr_set(w)

\* The calls that write a trial's fields, one of each kind for trial t.
WriteArgs(t) ==
    {SetParamArgs(t, "x", 0, CatA), SetValuesArgs(t, 0), SetIntermediateArgs(t, 0, 0),
     SetUserAttrArgs(t, "k", 0), SetSystemAttrArgs(t, "k", 0)}

NextRedisWrites ==
    \E w \in Workers :
        \/ \E a \in WriteArgs(SharedTrial) : BeginFree(w, a)
        \/ BeginFree(w, SetStateArgs(SharedTrial, "COMPLETE"))
        \/ Redis_set_trial_state_steps(w)
        \/ Redis_write_steps(w)
        \/ Return(w)

SpecRedisWrites == InitRedisRunning /\ [][NextRedisWrites]_vars

\* The calls that write a trial: their names are the labels of their first step.
WriteOps ==
    {"set_trial_state", "set_trial_param", "set_trial_values",
     "set_trial_intermediate_value", "set_trial_user_attr", "set_trial_system_attr"}

\* Some worker holds the result True of its set_trial_state of trial t to a
\* finished state: t has reached that state.
HasFinished(t) ==
    \E v \in Workers :
        /\ pc[v] = "done" /\ ret[v] = "True"
        /\ args[v].op = "set_trial_state" /\ args[v].trial_id = t
        /\ is_finished(args[v].state)

\* C3 (RedisStorage): a write call that reads the trial after the trial has reached a
\* finished state raises the not-updatable error and leaves the trial's record as it is.
C3_WriteAfterFinishRaises ==
    [][\A w \in Workers :
          (pc[w] \in WriteOps /\ pc'[w] # pc[w] /\ HasFinished(args[w].trial_id))
          => /\ ret'[w] = "NotUpdatable"
             /\ rTrial'[args[w].trial_id] = rTrial[args[w].trial_id]]_vars

\* C11 (RedisStorage): a trial whose persisted state is COMPLETE, FAIL or PRUNED keeps
\* that state in every step, whatever writes of its fields are under way.
C11_FinishedStateIsFinal ==
    [][\A t \in TrialIds :
          is_finished(rTrial[t].state) => rTrial'[t].state = rTrial[t].state]_vars

----------------------------------------------------------------------------
(* InMemoryStorage: trials are created, given values and finished, and the     *)
(* study's direction is set, in any order.                                    *)

InitNoRedis ==
    /\ rTrial = [t \in TrialIds |-> NoTrial]
    /\ rDist = EmptyMap
    /\ rHb = EmptyMap
    /\ rBest = <<>>
    /\ rDirs = <<"NOT_SET">>
    /\ rKeys = StudyKeys(NTrials)

\* A new study of a new InMemoryStorage.
InitMem ==
    /\ now = 0
    /\ InitNoRedis
    /\ InitNoMem
    /\ InitWorkers
    /\ InitNoStore

Values == {0, 1}
SingleDirections == {<<"MINIMIZE">>, <<"MAXIMIZE">>}

\* A create_new_trial may begin: the study stays within NTrials trials.
MayCreate ==
    Len(mTrials) + Cardinality({w \in Workers : pc[w] = "create_new_trial"}) < NTrials

NextMemBest ==
    \E w \in Workers :
        \/ MayCreate /\ BeginFree(w, CreateTrialArgs("RUNNING"))
        \/ \E t \in MemTrialIds, v \in Values : BeginFree(w, SetValuesArgs(t, v))
        \/ \E t \in MemTrialIds, st \in {"COMPLETE", "FAIL"} :
               BeginFree(w, SetStateArgs(t, st))
        \/ \E d \in SingleDirections : BeginFree(w, SetDirectionsArgs(d))
        \/ Mem_create_new_trial(w)
        \/ Mem_set_trial_values(w)
        \/ Mem_set_trial_state(w)
        \/ Mem_set_study_directions(w)
        \/ Return(w)

SpecMemBest == InitMem /\ [][NextMemBest]_vars

\* The COMPLETE trials that have a value.
MemCompleted == {t \in MemTrialIds : /\ mTrials[t + 1].state = "COMPLETE"
                                      /\ mTrials[t + 1].values # <<>>}

\* Value a is strictly better than value b under direction d.
StrictlyBetter(d, a, b) == IF d = "MAXIMIZE" THEN a > b ELSE a < b

\* The full rescan: the COMPLETE trials no other COMPLETE trial is better than.
MemRescan ==
    {t \in MemCompleted :
        \A u \in MemCompleted :
            ~StrictlyBetter(mDirs[1], mTrials[u + 1].values[1], mTrials[t + 1].values[1])}

\* C7: in a study with one direction, MAXIMIZE or MINIMIZE, best_trial_id is a trial
\* the full rescan over the COMPLETE trials finds best, and none of the equally
\* good trials completed before it.
C7_BestTrialIsRescan ==
    (mDirs \in SingleDirections /\ MemCompleted # {})
    => /\ mBest # <<>>
       /\ mBest[1] \in MemRescan
       /\ \A u \in MemRescan :
            mTrials[mBest[1] + 1].datetime_complete[1] <= mTrials[u + 1].datetime_complete[1]

----------------------------------------------------------------------------
(* _CachedStorage: workers, each through its own wrapper, race to claim        *)
(* WAITING trials of one backend.                                             *)

\* The cache of a wrapper after read_trials_from_remote_storage in a study whose
\* trials are all WAITING: it knows the trials and owns none.
ReadCache ==
    [Cached_add_trials_to_cache(NoCache, MemTrialIds) EXCEPT !.known = TRUE]

\* A study whose trials were all created WAITING; a wrapper has read the study's
\* trials or has not heard of the study.
InitCachedClaim ==
    /\ now = 0
    /\ InitNoRedis
    /\ mTrials = [i \in 1..NTrials |-> FrozenTrial(i - 1, i - 1, "WAITING", <<>>)]
    /\ mDist = EmptyMap
    /\ mBest = <<>>
    /\ mDirs = <<"MINIMIZE">>
    /\ cache \in [Workers -> {NoCache, ReadCache}]
    /\ InitWorkers
    /\ InitNoStore

\* Every worker calls set_trial_state(SharedTrial, RUNNING) once.
NextCachedClaim ==
    \/ Tick
    \/ \E w \in Workers :
        \/ ncalls[w] = 0 /\ BeginCounted(w, SetStateArgs(SharedTrial, "RUNNING"))
        \/ Cached_set_trial_state(w)
        \/ Cached_set_trial_state_cache(w)

SpecCachedClaim == InitCachedClaim /\ [][NextCachedClaim]_vars

\* The workers have all called set_trial_state(t, RUNNING) and every call has ended.
AllClaimed(t) ==
    \A w \in Workers : pc[w] = "done" /\ args[w] = SetStateArgs(t, "RUNNING")

\* The step in which the backend accepts worker w's set_trial_state(t, RUNNING).
WinsClaim(w) ==
    /\ pc[w] = "set_trial_state"
    /\ args[w].state = "RUNNING"
    /\ \/ pc'[w] = "sts_cache"
       \/ pc'[w] = "done" /\ ret'[w] = "True"

\* C2: when the workers, each through its own wrapper, have all called
\* set_trial_state(t, RUNNING) on the WAITING trial t, exactly one call returned True
\* and every other call returned False; the step of the call that wins writes the
\* time of that step as t's start time, and no other step changes a start time.
C2_OneWrapperClaims ==
    /\ [](\A t \in TrialIds :
            AllClaimed(t) => /\ Cardinality({w \in Workers : ret[w] = "True"}) = 1
                             /\ \A w \in Workers : ret[w] \in {"True", "False"})
    /\ [][\A w \in Workers :
            WinsClaim(w) =>
                mTrials'[args[w].trial_id + 1].datetime_start = <<now>>]_vars
    /\ [][\A t \in TrialIds :
            mTrials'[t + 1].datetime_start # mTrials[t + 1].datetime_start
            => \E w \in Workers : WinsClaim(w) /\ args[w].trial_id = t]_vars

\* Every worker has claimed the same trial, after the clock has advanced; the
\* winner's wrapper has cached the trial.
C2_Witness ==
    \E t \in TrialIds :
        /\ AllClaimed(t)
        /\ mTrials[t + 1].datetime_start # <<>>
        /\ mTrials[t + 1].datetime_start[1] > 0
        /\ \E w \in Workers :
            ret[w] = "True" /\ t \in cache[w].owned_or_finished_trial_ids

----------------------------------------------------------------------------
(* _CachedStorage: workers create trials, scan the backend and list the trials. *)

NextCachedTrials ==
    \E w \in Workers :
        \/ MayCreate /\ \E st \in {"RUNNING", "WAITING"} : BeginFree(w, CreateTrialArgs(st))
        \/ BeginFree(w, ReadTrialsArgs)
        \/ BeginFree(w, GetAllTrialsArgs)
        \/ Cached_create_new_trial(w)
        \/ Cached_read_trials_from_remote_storage(w)
        \/ Cached_get_all_trials(w)
        \/ Return(w)

SpecCachedTrials == InitMem /\ [][NextCachedTrials]_vars

\* C5: the numbers of the trials a get_all_trials has returned are 0, 1, ..., N-1 in
\* this order, N being how many trials it returned.
C5_AllTrialsAreNumbered ==
    \A w \in Workers :
        (pc[w] = "done" /\ args[w].op = "get_all_trials")
        => loc[w].result = [i \in 1..Len(loc[w].result) |-> i - 1]

----------------------------------------------------------------------------
(* _CachedStorage: the same calls are made on one trial through the wrapper    *)
(* that owns it and on another trial directly on the backend.                 *)

\* The worker that calls through its wrapper and the worker that calls the backend.
Wrapped == CHOOSE w \in Workers : \A v \in Workers : w <= v
Direct == CHOOSE w \in Workers : \A v \in Workers : w >= v

\* The trial the wrapper owns and the trial written directly.
WrappedTrial == SharedTrial
DirectTrial == CHOOSE t \in TrialIds : \A u \in TrialIds : t >= u

\* A study whose trials were created RUNNING at time 0: WrappedTrial by
\* create_new_trial of Wrapped's wrapper, the others on the backend.
InitCachedFlush ==
    /\ now = 0
    /\ InitNoRedis
    /\ mTrials = [i \in 1..NTrials |-> FrozenTrial(i - 1, i - 1, "RUNNING", <<0>>)]
    /\ mDist = EmptyMap
    /\ mBest = <<>>
    /\ mDirs = <<"MINIMIZE">>
    /\ cache = [w \in Workers |->
                  IF w = Wrapped
                  THEN [NoCache EXCEPT
                          !.known = TRUE,
                          !.ids = {WrappedTrial},
                          !.trials = Put(EmptyMap, WrappedTrial,
                              FrozenTrial(WrappedTrial, WrappedTrial, "RUNNING", <<0>>)),
                          !.owned_or_finished_trial_ids = {WrappedTrial}]
                  ELSE NoCache]
    /\ InitWorkers
    /\ InitNoStore

\* The writes of a trial's fields and the finishing set_trial_state.
FlushArgs(t) ==
    {SetParamArgs(t, n, v, d) : n \in ParamNames, v \in InternalValues, d \in {CatA, CatB}}
    \cup {SetValuesArgs(t, v) : v \in Values}
    \cup {SetIntermediateArgs(t, 0, v) : v \in Values}
    \cup {SetUserAttrArgs(t, "k", v) : v \in Values}
    \cup {SetSystemAttrArgs(t, "k", v) : v \in Values}
    \cup {SetStateArgs(t, st) : st \in FinishedStates}

\* Both workers begin the same call, each on its trial.
BeginBoth(a) ==
    /\ pc[Wrapped] = "idle" /\ pc[Direct] = "idle"
    /\ args' = [args EXCEPT ![Wrapped] = [a EXCEPT !.trial_id = WrappedTrial],
                            ![Direct] = [a EXCEPT !.trial_id = DirectTrial]]
    /\ pc' = [pc EXCEPT ![Wrapped] = a.op, ![Direct] = a.op]
    /\ loc' = [loc EXCEPT ![Wrapped] = NoLoc, ![Direct] = NoLoc]
    /\ ret' = [ret EXCEPT ![Wrapped] = "none", ![Direct] = "none"]
    /\ UNCHANGED <<now, storeVars, redisVars, memVars, cache, ncalls>>

NextCachedFlush ==
    \/ \E a \in FlushArgs(WrappedTrial) : BeginBoth(a)
    \/ Cached_set_trial_param(Wrapped)
    \/ Cached_set_trial_values(Wrapped)
    \/ Cached_set_trial_intermediate_value(Wrapped)
    \/ Cached_set_trial_user_attr(Wrapped)
    \/ Cached_set_trial_system_attr(Wrapped)
    \/ Cached_set_trial_state(Wrapped)
    \/ Mem_set_trial_param(Direct)
    \/ Mem_set_trial_values(Direct)
    \/ Mem_set_trial_intermediate_value(Direct)
    \/ Mem_set_trial_user_attr(Direct)
    \/ Mem_set_trial_system_attr(Direct)
    \/ Mem_set_trial_state(Direct)
    \/ Return(Wrapped)
    \/ Return(Direct)

SpecCachedFlush == InitCachedFlush /\ [][NextCachedFlush]_vars

\* Two trial records are the same but for the trials' identity.
SameRecord(t, u) ==
    [t EXCEPT !.trial_id = 0, !.number = 0] = [u EXCEPT !.trial_id = 0, !.number = 0]

\* Both workers have ended the calls made so far, the last of which finished
\* the trials.
BothFinished ==
    /\ pc[Wrapped] \in {"idle", "done"}
    /\ pc[Direct] \in {"idle", "done"}
    /\ is_finished(Mem_get_trial(mTrials, WrappedTrial).state)

\* C4: after a sequence of set_trial_param, set_trial_values,
\* set_trial_intermediate_value, set_trial_user_attr and set_trial_system_attr on a
\* trial through the wrapper that owns it, and a set_trial_state to a finished state,
\* the backend's record of the trial is the record of a trial on which the same calls
\* were made in the same order on the backend.
C4_FlushIsTransparent ==
    BothFinished
    => SameRecord(Mem_get_trial(mTrials, WrappedTrial), Mem_get_trial(mTrials, DirectTrial))

\* The trials are finished after writes of a buffered value and of a parameter.
C4_Witness ==
    /\ BothFinished
    /\ Mem_get_trial(mTrials, WrappedTrial).values # <<>>
    /\ Mem_get_trial(mTrials, WrappedTrial).params # EmptyMap
    /\ Mem_get_trial(mTrials, WrappedTrial).user_attrs # EmptyMap

----------------------------------------------------------------------------
(* InMemoryStorage: workers call set_trial_state with every target state.      *)

\* A study whose trials were all created WAITING.
InitMemWaiting ==
    /\ now = 0
    /\ InitNoRedis
    /\ mTrials = [i \in 1..NTrials |-> FrozenTrial(i - 1, i - 1, "WAITING", <<>>)]
    /\ mDist = EmptyMap
    /\ mBest = <<>>
    /\ mDirs = <<"MINIMIZE">>
    /\ cache = [w \in Workers |-> NoCache]
    /\ InitWorkers
    /\ InitNoStore

NextMemStates ==
    \E w \in Workers :
        \/ \E t \in TrialIds, st \in TrialStates : BeginFree(w, SetStateArgs(t, st))
        \/ Mem_set_trial_state(w)
        \/ Return(w)

SpecMemStates == InitMemWaiting /\ [][NextMemStates]_vars

\* How far a state is along WAITING -> RUNNING -> {COMPLETE, FAIL, PRUNED}.
StateRank(state) == IF state = "WAITING" THEN 0 ELSE IF state = "RUNNING" THEN 1 ELSE 2

\* C12 (InMemoryStorage): a set_trial_state call that is accepted does not move the
\* trial backwards, and a request for RUNNING on a RUNNING trial returns False and
\* leaves the trial as it is.
C12_StateMovesForward ==
    [][\A w \in Workers :
          (pc[w] = "set_trial_state" /\ pc'[w] = "done")
          => LET t == args[w].trial_id
                 old == Mem_get_trial(mTrials, t)
                 new == Mem_get_trial(mTrials', t)
             IN /\ ret'[w] = "True" => StateRank(new.state) >= StateRank(old.state)
                /\ (args[w].state = "RUNNING" /\ old.state = "RUNNING")
                   => (ret'[w] = "False" /\ new = old)]_vars

----------------------------------------------------------------------------
(* _CachedStorage: workers, each through its own wrapper, set the directions  *)
(* of one study.                                                              *)

\* The cache of the wrapper through which the study was created (create_new_study).
StudyCache == [NoCache EXCEPT !.known = TRUE]

\* A new study; a wrapper has created the study or has not heard of it.
InitCachedDirections ==
    /\ now = 0
    /\ InitNoRedis
    /\ mTrials = <<>>
    /\ mDist = EmptyMap
    /\ mBest = <<>>
    /\ mDirs = <<"NOT_SET">>
    /\ cache \in [Workers -> {NoCache, StudyCache}]
    /\ InitWorkers
    /\ InitNoStore

NextCachedDirections ==
    \E w \in Workers :
        \/ \E d \in SingleDirections : BeginFree(w, SetDirectionsArgs(d))
        \/ Cached_set_study_directions(w)
        \/ Return(w)

SpecCachedDirections == InitCachedDirections /\ [][NextCachedDirections]_vars

\* C13 (_CachedStorage): once the study's directions are set, a set_study_directions
\* with other directions raises, one with the same directions returns, and both leave
\* the stored directions as they are.
C13_DirectionsAreImmutable ==
    [][\A w \in Workers :
          (pc[w] = "set_study_directions" /\ pc'[w] = "done" /\ mDirs[1] # "NOT_SET")
          => /\ mDirs' = mDirs
             /\ ret'[w] = IF args[w].directions = mDirs THEN "None" ELSE "ValueError"]_vars

----------------------------------------------------------------------------
(* RedisStorage: trials are given values and completed, the directions are    *)
(* set and the best trial is asked for.  Writes run one after the other; the  *)
(* best trial is asked for at any time the directions are not being set.      *)

\* A new study (directions [NOT_SET]) whose trials were created RUNNING.
InitRedisBest ==
    /\ now = 0
    /\ rTrial = [t \in TrialIds |-> FrozenTrial(t, t, "RUNNING", <<0>>)]
    /\ rDist = EmptyMap
    /\ rHb = EmptyMap
    /\ rBest = <<>>
    /\ rDirs = <<"NOT_SET">>
    /\ rKeys = StudyKeys(NTrials)
    /\ InitWorkers
    /\ InitNoStore
    /\ InitNoMem

\* No call is under way.
Quiet == \A w \in Workers : pc[w] \in {"idle", "done"}

\* No set_study_directions is under way.
DirectionsAtRest == \A w \in Workers : pc[w] \notin {"set_study_directions", "ssd_exec"}

MultiDirections == {<<"MINIMIZE", "MAXIMIZE">>}

\* The steps of get_best_trial.
Redis_get_best_trial_steps(w) ==
    \/ Redis_get_best_trial_exists(w)
    \/ Redis_get_best_trial_scan(w)
    \/ Redis_get_best_trial_directions(w)
    \/ Redis_get_best_trial_set(w)
    \/ Redis_get_best_trial_get(w)
    \/ Redis_get_best_trial_trial(w)

NextRedisBest ==
    \E w \in Workers :
        \/ Quiet /\ \E t \in TrialIds, v \in Values : BeginFree(w, SetValuesArgs(t, v))
        \/ Quiet /\ \E t \in TrialIds : BeginFree(w, SetStateArgs(t, "COMPLETE"))
        \/ Quiet /\ \E d \in SingleDirections \cup MultiDirections :
                        BeginFree(w, SetDirectionsArgs(d))
        \/ DirectionsAtRest /\ BeginFree(w, GetBestTrialArgs)
        \/ Redis_set_trial_values_get(w)
        \/ Redis_set_trial_values_set(w)
        \/ Redis_set_trial_state_steps(w)
        \/ Redis_set_study_directions_get(w)
        \/ Redis_set_study_directions_execute(w)
        \/ Redis_get_best_trial_steps(w)
        \/ Return(w)

SpecRedisBest == InitRedisBest /\ [][NextRedisBest]_vars

\* C14 (RedisStorage): a get_best_trial that ends in a study of more than one
\* direction, or in a study without a COMPLETE trial, raises.
C14_BestTrialRaises ==
    [][\A w \in Workers :
          (/\ args[w].op = "get_best_trial" /\ pc[w] # "done" /\ pc'[w] = "done"
           /\ \/ Len(rDirs) > 1
              \/ \A t \in TrialIds : rTrial[t].state # "COMPLETE")
          => ret'[w] = "ValueError"]_vars

----------------------------------------------------------------------------
(* set_trial_param on any trial: through the wrapper that owns WrappedTrial    *)
(* and directly on the backend, where the trials are finished as well.        *)

ParamArgs ==
    {SetParamArgs(t, n, v, d) :
        t \in {WrappedTrial, DirectTrial}, n \in ParamNames,
        v \in {CHOOSE v \in InternalValues : \A u \in InternalValues : v <= u},
        d \in Distributions}

NextCachedParams ==
    \/ \E w \in {Wrapped, Direct}, a \in ParamArgs : BeginFree(w, a)
    \/ \E t \in {WrappedTrial, DirectTrial}, st \in FinishedStates :
           BeginFree(Direct, SetStateArgs(t, st))
    \/ Cached_set_trial_param(Wrapped)
    \/ Mem_set_trial_param(Direct)
    \/ Mem_set_trial_state(Direct)
    \/ \E w \in {Wrapped, Direct} : Return(w)

SpecCachedParams == InitCachedFlush /\ [][NextCachedParams]_vars

\* Any two of the trials that carry a parameter name carry compatible
\* distributions for it.
PairwiseCompatible(trials) ==
    \A i, j \in DOMAIN trials :
        \A n \in DOMAIN trials[i].distributions \cap DOMAIN trials[j].distributions :
            check_distribution_compatibility(trials[i].distributions[n],
                                             trials[j].distributions[n])

\* The call of worker w ends, and its distribution is not compatible with the one
\* the study has registered for the parameter.
EndsIncompatible(w) ==
    /\ pc[w] = "set_trial_param" /\ pc'[w] = "done"
    /\ args[w].name \in DOMAIN mDist
    /\ ~check_distribution_compatibility(mDist[args[w].name], args[w].dist)

\* C15: after every step the trials of the study, in the backend and in every
\* wrapper's snapshots, carry pairwise compatible distributions for each
\* parameter name; a set_trial_param whose distribution is not compatible with
\* the registered one raises and leaves the trials, the registry and the
\* wrapper's snapshots and cached distributions as they were.
C15_ParamDistributionsCompatible ==
    [][/\ PairwiseCompatible(mTrials')
       /\ \A w \in Workers :
             PairwiseCompatible([i \in DOMAIN mTrials' |->
                 IF (i - 1) \in DOMAIN cache'[w].trials
                 THEN cache'[w].trials[i - 1] ELSE mTrials'[i]])
       /\ \A w \in Workers :
             EndsIncompatible(w)
             => /\ ret'[w] \in {"ValueError", "NotUpdatable"}
                /\ UNCHANGED <<mTrials, mDist, cache>>]_vars

\* Both trials carry the parameter, and the wrapper has refused a distribution
\* for the trial it has cached.
C15_Witness ==
    /\ \A i \in DOMAIN mTrials : ParamNames \subseteq DOMAIN mTrials[i].distributions
    /\ ParamNames \subseteq DOMAIN cache[Wrapped].param_distribution
    /\ pc[Wrapped] = "done" /\ ret[Wrapped] = "ValueError"
    /\ args[Wrapped].op = "set_trial_param" /\ args[Wrapped].trial_id = WrappedTrial

----------------------------------------------------------------------------
(* RedisStorage: the workers create the first trials of a new study.          *)

\* A new study in a Redis server that holds no trial yet.
InitRedisCreate ==
    /\ now = 0
    /\ rTrial = EmptyMap
    /\ rDist = EmptyMap
    /\ rHb = EmptyMap
    /\ rBest = <<>>
    /\ rDirs = <<"NOT_SET">>
    /\ rKeys = StudyKeys(0)
    /\ InitWorkers
    /\ InitNoStore
    /\ InitNoMem

NextRedisCreate ==
    \E w \in Workers :
        \/ /\ ncalls[w] < NTrials
           /\ ncalls' = [ncalls EXCEPT ![w] = @ + 1]
           /\ \E st \in {"RUNNING", "WAITING"} : Begin(w, CreateTrialArgs(st))
        \/ Redis_create_new_trial_exists(w)
        \/ Redis_create_new_trial_init(w)
        \/ Redis_create_new_trial_id(w)
        \/ Redis_create_new_trial_number(w)
        \/ Redis_create_new_trial_execute(w)
        \/ Return(w)

SpecRedisCreate == InitRedisCreate /\ [][NextRedisCreate]_vars

\* The numbers of the study's trials, in the order of its trial list.
Redis_trial_numbers == [i \in DOMAIN rKeys.trial_list |-> rTrial[rKeys.trial_list[i]].number]

\* The numbers are pairwise distinct and are exactly 0..N-1.
DenseNumbers(numbers) ==
    /\ \A i, j \in DOMAIN numbers : numbers[i] = numbers[j] => i = j
    /\ {numbers[i] : i \in DOMAIN numbers} = 0..(Len(numbers) - 1)

\* C16 (RedisStorage): whenever no create_new_trial is under way the numbers of
\* the study's trials are pairwise distinct and exactly 0..N-1, and no step
\* changes the number of a stored trial.
C16_NumbersAreDense ==
    [][/\ Quiet' => DenseNumbers(Redis_trial_numbers')
       /\ \A t \in DOMAIN rTrial :
             t \in DOMAIN rTrial' /\ rTrial'[t].number = rTrial[t].number]_vars

----------------------------------------------------------------------------
(* _CachedStorage: through their wrappers the workers create a trial, set its  *)
(* state and values, scan the backend and read the trial.                     *)

\* The least of the values.
SomeValue == CHOOSE v \in Values : \A u \in Values : v <= u

\* SharedTrial has been created.
SharedCreated == SharedTrial \in MemTrialIds

\* No create_new_trial is under way.
NoneCreating == \A w \in Workers : pc[w] # "create_new_trial"

NextCachedOwnership ==
    \E w \in Workers :
        \/ /\ ~SharedCreated /\ NoneCreating
           /\ \E st \in {"RUNNING", "WAITING"} : BeginFree(w, CreateTrialArgs(st))
        \/ SharedCreated /\ \E st \in TrialStates : BeginFree(w, SetStateArgs(SharedTrial, st))
        \/ SharedCreated /\ BeginFree(w, SetValuesArgs(SharedTrial, SomeValue))
        \/ SharedCreated /\ BeginFree(w, GetTrialArgs(SharedTrial))
        \/ BeginFree(w, ReadTrialsArgs)
        \/ Cached_create_new_trial(w)
        \/ Cached_set_trial_state(w)
        \/ Cached_set_trial_state_cache(w)
        \/ Cached_set_trial_values(w)
        \/ Cached_get_trial(w)
        \/ Cached_read_trials_from_remote_storage(w)
        \/ Return(w)

SpecCachedOwnership == InitMem /\ [][NextCachedOwnership]_vars

\* C17: no trial id in a wrapper's owned_or_finished_trial_ids has a WAITING
\* cached snapshot or a WAITING backend state, and no set_trial_state call ends in
\* the failure of its assertion.
C17_NoWaitingTrialIsOwned ==
    \A w \in Workers :
        /\ \A t \in cache[w].owned_or_finished_trial_ids :
              /\ Cached_get_cached_trial(cache[w], t) # <<>>
                 => Cached_get_cached_trial(cache[w], t)[1].state # "WAITING"
              /\ Mem_get_trial(mTrials, t).state # "WAITING"
        /\ ret[w] # "AssertionError"

\* C18: a step adds a trial id to a wrapper's owned_or_finished_trial_ids only if
\* it is the wrapper's create_new_trial of a trial that is not WAITING, its
\* set_trial_state(t, RUNNING) that returns True, or its scan seeing the trial
\* finished; and every set_trial_state(t, RUNNING) of the wrapper that returns
\* True leaves t in its owned_or_finished_trial_ids.
C18_OwnedExactlyWhen ==
    [][\A w \in Workers :
          /\ \A t \in cache'[w].owned_or_finished_trial_ids
                      \ cache[w].owned_or_finished_trial_ids :
                \/ /\ pc[w] = "create_new_trial" /\ args[w].state # "WAITING"
                   /\ t = Len(mTrials)
                \/ /\ args[w] = SetStateArgs(t, "RUNNING")
                   /\ pc'[w] = "done" /\ ret'[w] = "True"
                \/ /\ pc[w] = "read_trials_from_remote_storage"
                   /\ is_finished(Mem_get_trial(mTrials, t).state)
          /\ (/\ args[w].op = "set_trial_state" /\ args[w].state = "RUNNING"
              /\ pc[w] # "done" /\ pc'[w] = "done" /\ ret'[w] = "True")
             => args[w].trial_id \in cache'[w].owned_or_finished_trial_ids]_vars

\* C19: a get_trial of a trial the wrapper has cached returns the cached snapshot
\* without a backend call; any other returns the backend's trial after one
\* backend call and, if that trial is finished, leaves its id in the wrapper's
\* owned_or_finished_trial_ids.
C19_GetTrialAdmitsFinished ==
    [][\A w \in Workers :
          (pc[w] = "get_trial" /\ pc'[w] = "done")
          => LET t == args[w].trial_id
                 cached_trial == Cached_get_cached_trial(cache[w], t)
             IN IF cached_trial # <<>>
                THEN loc'[w].trial = cached_trial[1] /\ loc'[w].backend_calls = 0
                ELSE /\ loc'[w].trial = Mem_get_trial(mTrials, t)
                     /\ loc'[w].backend_calls = 1
                     /\ is_finished(loc'[w].trial.state)
                        => t \in cache'[w].owned_or_finished_trial_ids]_vars

----------------------------------------------------------------------------
\* C20: the trials a get_all_trials returns include every trial the backend holds
\* when the call is made.
C20_AllTrialsIncludeBackend ==
    [][\A w \in Workers :
          (pc[w] = "get_all_trials" /\ pc'[w] = "done")
          => \A t \in MemTrialIds :
                \E i \in DOMAIN loc'[w].result :
                    loc'[w].result[i] = Mem_get_trial(mTrials, t).number]_vars

----------------------------------------------------------------------------
(* _CachedStorage: the wrapper that owns WrappedTrial writes the trial's fields *)
(* and flushes; another worker finishes the trial on the backend.              *)

\* The writes of the owner and its calls of _flush_trial.
OwnerArgs ==
    {SetStateArgs(WrappedTrial, st) : st \in TrialStates}
    \cup {SetValuesArgs(WrappedTrial, SomeValue),
          SetIntermediateArgs(WrappedTrial, 0, SomeValue),
          SetUserAttrArgs(WrappedTrial, "k", SomeValue),
          SetSystemAttrArgs(WrappedTrial, "k", SomeValue)}
    \cup {FlushTrialArgs(t) : t \in {WrappedTrial, DirectTrial}}

NextCachedWrites ==
    \/ \E a \in OwnerArgs : BeginFree(Wrapped, a)
    \/ \E st \in FinishedStates : BeginFree(Direct, SetStateArgs(WrappedTrial, st))
    \/ Cached_set_trial_state(Wrapped)
    \/ Cached_set_trial_values(Wrapped)
    \/ Cached_set_trial_intermediate_value(Wrapped)
    \/ Cached_set_trial_user_attr(Wrapped)
    \/ Cached_set_trial_system_attr(Wrapped)
    \/ Cached_flush(Wrapped)
    \/ Mem_set_trial_state(Direct)
    \/ \E w \in {Wrapped, Direct} : Return(w)

SpecCachedWrites == InitCachedFlush /\ [][NextCachedWrites]_vars

\* The fields the update u gives are the fields of the trial.
Holds(trial, u) ==
    /\ u.state # <<>> => trial.state = u.state[1]
    /\ u.values # <<>> => trial.values = u.values
    /\ \A k \in DOMAIN u.intermediate_values :
          k \in DOMAIN trial.intermediate_values
          /\ trial.intermediate_values[k] = u.intermediate_values[k]
    /\ \A k \in DOMAIN u.user_attrs :
          k \in DOMAIN trial.user_attrs /\ trial.user_attrs[k] = u.user_attrs[k]
    /\ \A k \in DOMAIN u.system_attrs :
          k \in DOMAIN trial.system_attrs /\ trial.system_attrs[k] = u.system_attrs[k]
    /\ \A k \in DOMAIN u.distributions :
          k \in DOMAIN trial.distributions /\ trial.distributions[k] = u.distributions[k]
    /\ u.datetime_complete # <<>> => trial.datetime_complete = u.datetime_complete

\* C21: a _flush_trial of a trial with pending updates makes one backend call,
\* which the backend refuses or after which the backend's trial holds every
\* pending field, and leaves the trial without pending updates; a _flush_trial
\* of a trial without pending updates, or of a trial the wrapper does not
\* know, makes no backend call, changes nothing and returns True.
C21_FlushSendsAllOnce ==
    [][\A w \in Workers :
          (pc[w] = "_flush_trial" /\ pc'[w] = "done")
          => LET t == args[w].trial_id
                 c == cache[w]
             IN IF t \in c.ids /\ t \in DOMAIN c.updates
                THEN /\ loc'[w].backend_calls = 1
                     /\ t \notin DOMAIN cache'[w].updates
                     /\ \/ ret'[w] = "NotUpdatable" /\ mTrials' = mTrials
                        \/ /\ ret'[w] = "True"
                           /\ Holds(Mem_get_trial(mTrials', t), c.updates[t])
                ELSE /\ loc'[w].backend_calls = 0
                     /\ ret'[w] = "True"
                     /\ UNCHANGED <<cache, memVars>>]_vars

\* A _flush_trial has sent pending values to the backend in one call.
C21_Witness ==
    /\ pc[Wrapped] = "done" /\ args[Wrapped] = FlushTrialArgs(WrappedTrial)
    /\ ret[Wrapped] = "True" /\ loc[Wrapped].backend_calls = 1
    /\ Mem_get_trial(mTrials, WrappedTrial).values # <<>>
    /\ WrappedTrial \notin DOMAIN cache[Wrapped].updates

\* The labels of the writes of one field of a trial.
WriteLabels ==
    {"set_trial_state", "set_trial_values", "set_trial_intermediate_value",
     "set_trial_user_attr", "set_trial_system_attr"}

\* Worker w ends a write of a trial its wrapper holds as RUNNING while the
\* backend holds it finished.
StaleOwnerWrites(w) ==
    LET cached_trial == Cached_get_cached_trial(cache[w], args[w].trial_id)
    IN /\ pc[w] \in WriteLabels /\ pc'[w] = "done"
       /\ cached_trial # <<>> /\ cached_trial[1].state = "RUNNING"
       /\ is_finished(Mem_get_trial(mTrials, args[w].trial_id).state)

\* C25: a write through the wrapper that owns a trial as RUNNING, issued after
\* another worker finished the trial on the backend, raises the not-updatable
\* error, in every field category.
C25_StaleOwnerWritesFail ==
    [][\A w \in Workers : StaleOwnerWrites(w) => ret'[w] = "NotUpdatable"]_vars

\* The same for the writes other than set_trial_values.
StaleOwnerFlushedWritesFail ==
    [][\A w \in Workers :
          StaleOwnerWrites(w) /\ pc[w] # "set_trial_values" => ret'[w] = "NotUpdatable"]_vars

\* Worker w ends a write of a trial its wrapper holds as RUNNING.
OwnerWrites(w, label) ==
    LET cached_trial == Cached_get_cached_trial(cache[w], args[w].trial_id)
    IN /\ pc[w] = label /\ pc'[w] = "done"
       /\ cached_trial # <<>> /\ cached_trial[1].state = "RUNNING"

\* The trial has updates the wrapper has not sent to the backend.
Pending(c, trial_id) == trial_id \in DOMAIN c.updates

\* C26: a set_trial_state through the wrapper on a trial it owns puts the new
\* state in the cached snapshot; it flushes to the backend in the same call
\* exactly when the new state is finished, and a state that is not finished
\* stays in the pending updates with the backend untouched.
C26_StateWriteFlushesIffFinished ==
    [][\A w \in Workers :
          OwnerWrites(w, "set_trial_state")
          => LET t == args[w].trial_id
             IN /\ Cached_trial(cache'[w], t).state = args[w].state
                /\ ~Pending(cache'[w], t) <=> is_finished(args[w].state)
                /\ ~is_finished(args[w].state)
                   => /\ Pending(cache'[w], t)
                      /\ cache'[w].updates[t].state = <<args[w].state>>
                      /\ mTrials' = mTrials]_vars

\* The write of worker w leaves its change in the cached snapshot and in the
\* pending updates and the backend as it was.
BufferedOnly(w) ==
    LET t == args[w].trial_id
        a == args[w]
        trial == Cached_trial(cache'[w], t)
    IN /\ Pending(cache'[w], t)
       /\ Holds(trial, cache'[w].updates[t])
       /\ mTrials' = mTrials
       /\ pc[w] = "set_trial_values" => cache'[w].updates[t].values = <<a.value>>
       /\ pc[w] = "set_trial_intermediate_value"
          => a.step \in DOMAIN cache'[w].updates[t].intermediate_values
       /\ pc[w] = "set_trial_user_attr" => a.key \in DOMAIN cache'[w].updates[t].user_attrs
       /\ pc[w] = "set_trial_system_attr" => a.key \in DOMAIN cache'[w].updates[t].system_attrs

\* C27: set_trial_values, set_trial_intermediate_value, set_trial_user_attr and
\* set_trial_system_attr through the wrapper on a trial it owns change the
\* cached snapshot and the pending updates and leave the backend as it was.
C27_FieldWritesOnlyBuffer ==
    [][\A w \in Workers :
          \A label \in WriteLabels \ {"set_trial_state"} :
             OwnerWrites(w, label) => BufferedOnly(w)]_vars

\* The same for set_trial_values alone.
ValuesOnlyBuffer ==
    [][\A w \in Workers : OwnerWrites(w, "set_trial_values") => BufferedOnly(w)]_vars

----------------------------------------------------------------------------
(* The wrapper that owns WrappedTrial sets parameters and values of it and    *)
(* flushes; another worker registers distributions with its own trial on the  *)
(* backend and finishes WrappedTrial there.                                   *)

OwnerParamArgs ==
    {SetParamArgs(WrappedTrial, n, SomeValue, d) : n \in ParamNames, d \in Distributions}
    \cup {SetValuesArgs(WrappedTrial, SomeValue), FlushTrialArgs(WrappedTrial)}

NextCachedParamWrites ==
    \/ \E a \in OwnerParamArgs : BeginFree(Wrapped, a)
    \/ \E n \in ParamNames, d \in Distributions :
          BeginFree(Direct, SetParamArgs(DirectTrial, n, SomeValue, d))
    \/ \E st \in FinishedStates : BeginFree(Direct, SetStateArgs(WrappedTrial, st))
    \/ Cached_set_trial_param(Wrapped)
    \/ Cached_set_trial_values(Wrapped)
    \/ Cached_flush(Wrapped)
    \/ Mem_set_trial_param(Direct)
    \/ Mem_set_trial_state(Direct)
    \/ \E w \in {Wrapped, Direct} : Return(w)

SpecCachedParamWrites == InitCachedFlush /\ [][NextCachedParamWrites]_vars

\* The backend's trials with the parameter of the call a in the trial of a.
WithParam(trials, a) ==
    [trials EXCEPT ![a.trial_id + 1] =
        [@ EXCEPT !.params = Put(@, a.name, to_external_repr(a.dist, a.value)),
                  !.distributions = Put(@, a.name, a.dist)]]

\* C28: a set_trial_param through the wrapper on a trial it owns, for a name
\* without a cached distribution, leaves the pending updates as they were;
\* when it succeeds the backend has registered the distribution and holds the
\* parameter in the trial, nothing else of the backend has changed, and the
\* wrapper has cached the distribution; when it raises, the backend and the
\* wrapper are as they were.
C28_ParamMissGoesToBackend ==
    [][\A w \in Workers :
          OwnerWrites(w, "set_trial_param")
          /\ args[w].name \notin DOMAIN cache[w].param_distribution
          => LET a == args[w]
             IN /\ cache'[w].updates = cache[w].updates
                /\ IF ret'[w] = "None"
                   THEN /\ mTrials' = WithParam(mTrials, a)
                        /\ mDist' = Put(mDist, a.name, a.dist)
                        /\ a.name \in DOMAIN cache'[w].param_distribution
                        /\ cache'[w].param_distribution[a.name] = a.dist
                        /\ Cached_trial(cache'[w], a.trial_id).distributions[a.name] = a.dist
                   ELSE /\ ret'[w] \in {"ValueError", "NotUpdatable"}
                        /\ UNCHANGED <<cache, memVars>>]_vars

\* The wrapper has sent a parameter to the backend while values of the trial
\* wait in the pending updates, and the backend has refused another.
C28_Witness ==
    /\ pc[Wrapped] = "done" /\ args[Wrapped].op = "set_trial_param"
    /\ ret[Wrapped] = "None"
    /\ args[Wrapped].name \in DOMAIN Mem_get_trial(mTrials, WrappedTrial).params
    /\ cache[Wrapped].param_distribution[args[Wrapped].name] = args[Wrapped].dist
    /\ Pending(cache[Wrapped], WrappedTrial)
    /\ cache[Wrapped].updates[WrappedTrial].params = EmptyMap
    /\ Mem_get_trial(mTrials, WrappedTrial).values = <<>>

\* C29: a set_trial_param through the wrapper on a trial it owns, for a name
\* whose cached distribution is compatible, puts the parameter in the cached
\* snapshot and in the pending updates and leaves the backend as it was.
C29_ParamHitOnlyBuffers ==
    [][\A w \in Workers :
          /\ OwnerWrites(w, "set_trial_param")
          /\ args[w].name \in DOMAIN cache[w].param_distribution
          /\ check_distribution_compatibility(cache[w].param_distribution[args[w].name],
                                              args[w].dist)
          => LET a == args[w]
             IN /\ a.name \in DOMAIN Cached_trial(cache'[w], a.trial_id).params
                /\ Pending(cache'[w], a.trial_id)
                /\ a.name \in DOMAIN cache'[w].updates[a.trial_id].params
                /\ UNCHANGED memVars]_vars

----------------------------------------------------------------------------
(* RedisStorage: the owner of SharedTrial has vanished after its heartbeat of   *)
(* time 0; the reclaimer calls fail_stale_trials again and again while the     *)
(* owners of the other trials finish them and send heartbeats.                *)

\* The owners of the other trials.
OtherOwners == {w \in Workers \ {Reclaimer} : OwnedTrial(w) # SharedTrial}

\* A step of the reclaimer: it begins fail_stale_trials, takes a step of it or
\* takes its result.
ReclaimerStep ==
    \/ BeginFree(Reclaimer, FailStaleArgs)
    \/ Redis_fail_stale_trials_steps(Reclaimer)
    \/ Return(Reclaimer)

\* A step of a call of an owner.
OwnerStep(w) ==
    \/ Redis_record_heartbeat_steps(w)
    \/ Redis_set_trial_state_get(w)
    \/ Redis_set_trial_state_set(w)
    \/ Redis_update_cache_get(w)
    \/ Redis_set_trial_state_hdel(w)
    \/ Return(w)

NextRedisReclaim ==
    \/ Tick
    \/ ReclaimerStep
    \/ \E w \in OtherOwners :
        \/ BeginFree(w, HeartbeatArgs(OwnedTrial(w)))
        \/ BeginFree(w, SetStateArgs(OwnedTrial(w), "FAIL"))
        \/ OwnerStep(w)

\* The clock advances, the reclaimer keeps calling, and a call that an owner has
\* begun runs to its end.
SpecRedisReclaim ==
    /\ InitRedisHeartbeat
    /\ [][NextRedisReclaim]_vars
    /\ WF_vars(Tick)
    /\ WF_vars(ReclaimerStep)
    /\ \A w \in OtherOwners : WF_vars(OwnerStep(w))

\* C22: the trial whose owner has vanished is eventually in state FAIL.
C22_StaleTrialEventuallyFails == <>(rTrial[SharedTrial].state = "FAIL")

----------------------------------------------------------------------------
\* C23 (RedisStorage, create_new_trial): the trial ids that create_new_trial
\* calls have appended to the study's trial list are pairwise distinct, and two
\* workers whose create_new_trial calls have ended hold different trial ids.
C23_TrialIdsAreUnique ==
    /\ \A i, j \in DOMAIN rKeys.trial_list :
          rKeys.trial_list[i] = rKeys.trial_list[j] => i = j
    /\ \A w, v \in Workers :
          (/\ w # v
           /\ pc[w] = "done" /\ args[w].op = "create_new_trial"
           /\ pc[v] = "done" /\ args[v].op = "create_new_trial")
          => loc[w].trial.trial_id # loc[v].trial.trial_id


----------------------------------------------------------------------------
(* Several studies.  InMemoryStorage keeps its trials per study, in a list   *)
(* indexed by the trial's number, and one map from trial id to (study id,    *)
(* number); a _CachedStorage keeps per study a dict from NUMBER to snapshot  *)
(* and one map from trial id to (study id, number).  InMemoryStorage takes   *)
(* the wrapper's backend calls; every backend call and every section under   *)
(* the wrapper's lock is one step.                                           *)

NStudies == 2

CreateStudyArgs == [NoArgs EXCEPT !.op = "create_new_study"]
CreateTrialInArgs(study_id) ==
    [NoArgs EXCEPT !.op = "create_new_trial", !.state = "RUNNING", !.study_id = study_id]
DeleteStudyArgs(study_id) == [NoArgs EXCEPT !.op = "delete_study", !.study_id = study_id]

NoStore == [max_study_id |-> -1, max_trial_id |-> -1, studies |-> EmptyMap, ids |-> EmptyMap]
NoStudyInfo == [trials |-> EmptyMap, owned_or_finished_trial_ids |-> {}]
NoWrapper == [studies |-> EmptyMap, ids |-> EmptyMap]

Without(f, keys) == [x \in (DOMAIN f) \ keys |-> f[x]]

\* InMemoryStorage.create_new_study: the next study id, with no trial.
Mem_create_new_study(store) ==
    [store EXCEPT !.max_study_id = @ + 1,
                  !.studies = Put(@, store.max_study_id + 1, <<>>)]

\* The trial InMemoryStorage.create_new_trial makes in the study.
Mem_new_trial_in(store, study_id) ==
    FrozenTrial(store.max_trial_id + 1, Len(store.studies[study_id]), "RUNNING", 0)

Mem_create_new_trial_in(store, study_id) ==
    LET trial == Mem_new_trial_in(store, study_id)
    IN [store EXCEPT !.max_trial_id = @ + 1,
                     !.ids = Put(@, trial.trial_id, <<study_id, trial.number>>),
                     !.studies[study_id] = Append(@, trial)]

\* InMemoryStorage.delete_study, for a study that exists.
Mem_delete_study(store, study_id) ==
    LET trials == store.studies[study_id]
    IN [store EXCEPT !.ids = Without(@, {trials[i].trial_id : i \in DOMAIN trials}),
                     !.studies = Remove(@, study_id)]

\* _CachedStorage.delete_study under the lock: the loop variable runs over
\* the keys of the study's trials dict.
Cached_forget_study(c, study_id) ==
    IF study_id \in DOMAIN c.studies
    THEN [c EXCEPT !.ids = Without(@, DOMAIN c.studies[study_id].trials),
                   !.studies = Remove(@, study_id)]
    ELSE c

\* _CachedStorage.create_new_trial under the lock, with _add_trials_to_cache.
Cached_add_new_trial(c, study_id, trial) ==
    LET known == IF study_id \in DOMAIN c.studies THEN c.studies[study_id] ELSE NoStudyInfo
        study == [known EXCEPT
                     !.trials = Put(@, trial.number, trial),
                     !.owned_or_finished_trial_ids =
                         IF trial.state # "WAITING" THEN @ \cup {trial.trial_id} ELSE @]
    IN [c EXCEPT !.ids = Put(@, trial.trial_id, <<study_id, trial.number>>),
                 !.studies = Put(@, study_id, study)]

Store_create_new_study_backend(w) ==
    /\ pc[w] = "create_new_study"
    /\ mStore' = Mem_create_new_study(mStore)
    /\ args' = [args EXCEPT ![w].study_id = mStore.max_study_id + 1]
    /\ Goto(w, "cns_lock")
    /\ UNCHANGED <<now, lock, redisVars, memVars, cache, cStore, loc, ret, ncalls>>

Store_create_new_study_lock(w) ==
    /\ pc[w] = "cns_lock"
    /\ cStore' = [cStore EXCEPT ![w].studies = Put(@, args[w].study_id, NoStudyInfo)]
    /\ Done(w, "study_id")
    /\ UNCHANGED <<now, lock, redisVars, memVars, cache, mStore, args, ncalls>>

Store_create_new_trial_backend(w) ==
    /\ pc[w] = "create_new_trial"
    /\ IF args[w].study_id \notin DOMAIN mStore.studies
       THEN Done(w, "KeyError") /\ UNCHANGED mStore
       ELSE /\ mStore' = Mem_create_new_trial_in(mStore, args[w].study_id)
            /\ loc' = [loc EXCEPT ![w].trial = Mem_new_trial_in(mStore, args[w].study_id)]
            /\ Goto(w, "cnt_lock")
            /\ UNCHANGED ret
    /\ UNCHANGED <<now, lock, redisVars, memVars, cache, cStore, args, ncalls>>

Store_create_new_trial_lock(w) ==
    /\ pc[w] = "cnt_lock"
    /\ cStore' = [cStore EXCEPT ![w] = Cached_add_new_trial(@, args[w].study_id, loc[w].trial)]
    /\ Done(w, "trial_id")
    /\ UNCHANGED <<now, lock, redisVars, memVars, cache, mStore, args, ncalls>>

Store_delete_study_lock(w) ==
    /\ pc[w] = "delete_study"
    /\ cStore' = [cStore EXCEPT ![w] = Cached_forget_study(@, args[w].study_id)]
    /\ Goto(w, "ds_backend")
    /\ UNCHANGED <<now, lock, redisVars, memVars, cache, mStore, args, loc, ret, ncalls>>

Store_delete_study_backend(w) ==
    /\ pc[w] = "ds_backend"
    /\ IF args[w].study_id \notin DOMAIN mStore.studies
       THEN Done(w, "KeyError") /\ UNCHANGED mStore
       ELSE mStore' = Mem_delete_study(mStore, args[w].study_id) /\ Done(w, "None")
    /\ UNCHANGED <<now, lock, redisVars, memVars, cache, cStore, args, ncalls>>

StudyIds == 0..(NStudies - 1)

InitStudies ==
    /\ now = 0
    /\ InitNoRedis
    /\ InitNoMem
    /\ InitWorkers
    /\ mStore = NoStore
    /\ cStore = [w \in Workers |-> NoWrapper]
    /\ lock = 0

NextStudies ==
    \/ \E w \in Workers :
          \/ mStore.max_study_id + 1 < NStudies /\ BeginFree(w, CreateStudyArgs)
          \/ \E study_id \in StudyIds :
                /\ mStore.max_trial_id + 1 < NTrials
                /\ BeginFree(w, CreateTrialInArgs(study_id))
          \/ \E study_id \in StudyIds : BeginFree(w, DeleteStudyArgs(study_id))
          \/ Store_create_new_study_backend(w)
          \/ Store_create_new_study_lock(w)
          \/ Store_create_new_trial_backend(w)
          \/ Store_create_new_trial_lock(w)
          \/ Store_delete_study_lock(w)
          \/ Store_delete_study_backend(w)
          \/ Return(w)

SpecStudies == InitStudies /\ [][NextStudies]_vars

\* The trial ids the map resolves to the study.
IdsOf(ids, study_id) == {t \in DOMAIN ids : ids[t][1] = study_id}

\* Nothing of another study than study_id differs between before and after.
OthersKept(before, after, study_id) ==
    /\ \A t \in DOMAIN before.ids \ IdsOf(before.ids, study_id) :
          t \in DOMAIN after.ids /\ after.ids[t] = before.ids[t]
    /\ \A other \in DOMAIN before.studies \ {study_id} :
          other \in DOMAIN after.studies /\ after.studies[other] = before.studies[other]

\* C24: when delete_study(s) returns, neither InMemoryStorage's id map nor
\* the calling wrapper's _trial_id_to_study_id_and_number resolves a trial id
\* of s, and no step of the call changes the map entries, the snapshots or
\* the ownership of a trial of another study.
C24_DeleteStudyCascades ==
    [][\A w \in Workers :
          /\ pc[w] = "ds_backend" /\ pc'[w] = "done" /\ ret'[w] = "None" =>
                /\ IdsOf(mStore.ids, args[w].study_id) \cap DOMAIN mStore'.ids = {}
                /\ IdsOf(mStore.ids, args[w].study_id) \cap DOMAIN cStore'[w].ids = {}
          /\ pc[w] \in {"delete_study", "ds_backend"} /\ pc'[w] # pc[w] =>
                /\ OthersKept(mStore, mStore', args[w].study_id)
                /\ OthersKept(cStore[w], cStore'[w], args[w].study_id)]_vars


----------------------------------------------------------------------------
(* The best trial of a study with one direction, on an InMemoryStorage or on *)
(* a RedisStorage: the program is constructed with one of the two, gives its *)
(* trials values and completes them.                                          *)

\* The storage of the program is the RedisStorage.
RedisInUse == rTrial # [t \in TrialIds |-> NoTrial]

InitBest == InitMem \/ InitRedisBest

NextBest ==
    \/ ~RedisInUse /\ NextMemBest
    \/ RedisInUse /\ NextRedisBest

SpecBest == InitBest /\ [][NextBest]_vars

\* Worker w ends a set_trial_state that has moved its trial to COMPLETE.
Completes(w, last) ==
    /\ pc[w] = last /\ pc'[w] = "done"
    /\ args[w].op = "set_trial_state" /\ args[w].state = "COMPLETE"
    /\ ret'[w] = "True"

\* Both trials have a value, and the first is strictly better than the second
\* under the direction.
ValueStrictlyBetter(direction, trial, best_trial) ==
    /\ trial.values # <<>> /\ best_trial.values # <<>>
    /\ StrictlyBetter(direction, trial.values[1], best_trial.values[1])

\* InMemoryStorage: the completion of trial t with a value, in a study of
\* direction MAXIMIZE or MINIMIZE, makes t the best trial when there is none,
\* replaces a best trial with a value exactly when t is strictly better, and
\* keeps it otherwise.
MemBestReplacedWhenBetter ==
    \A w \in Workers :
        ~RedisInUse /\ Completes(w, "set_trial_state") /\ mDirs \in SingleDirections
        => LET t == args[w].trial_id
               trial == Mem_get_trial(mTrials', t)
           IN IF mBest = <<>>
              THEN mBest' = <<t>>
              ELSE LET best_trial == Mem_get_trial(mTrials, mBest[1])
                   IN trial.values # <<>> /\ best_trial.values # <<>>
                      => mBest' = IF ValueStrictlyBetter(mDirs[1], trial, best_trial)
                                  THEN <<t>> ELSE mBest

\* RedisStorage: _set_best_trial of _update_cache runs when no best trial is
\* recorded, or the completed trial is the one recorded (by a get_best_trial
\* in between), or the completed trial is strictly better than the recorded one;
\* a completion in a study of one direction ends with a best trial recorded,
\* and one of direction MAXIMIZE or MINIMIZE with a best trial that the
\* completed trial is not strictly better than.
RedisBestReplacedWhenBetter ==
    \A w \in Workers :
        LET t == args[w].trial_id
        IN /\ RedisInUse /\ pc[w] = "uc_set" /\ pc'[w] # "uc_set"
              => /\ rBest' = <<t>>
                 /\ \/ rBest \in {<<>>, <<t>>}
                    \/ ValueStrictlyBetter(loc[w].direction, rTrial[t], rTrial[rBest[1]])
           /\ RedisInUse /\ Completes(w, "sts_hdel") /\ Len(rDirs) = 1
              => /\ rBest' # <<>>
                 /\ rDirs \in SingleDirections
                    => ~ValueStrictlyBetter(rDirs[1], rTrial[t], rTrial[rBest'[1]])

\* C30: on a transition into COMPLETE the best trial is replaced only by a
\* trial whose value is strictly better under the study's direction (greater
\* for MAXIMIZE, smaller for MINIMIZE), a trial of equal value leaves it, and
\* without a recorded best trial the completed trial becomes the best one, on
\* InMemoryStorage and on RedisStorage.
C30_BestReplacedOnlyWhenStrictlyBetter ==
    [][MemBestReplacedWhenBetter /\ RedisBestReplacedWhenBetter]_vars

\* RedisStorage: a trial has completed with the value of the best trial, which
\* was kept.
C30_Witness ==
    /\ RedisInUse /\ rBest # <<>>
    /\ \E w \in Workers :
          /\ pc[w] = "done" /\ ret[w] = "True"
          /\ args[w].op = "set_trial_state" /\ args[w].state = "COMPLETE"
          /\ args[w].trial_id # rBest[1]
          /\ rTrial[args[w].trial_id].state = "COMPLETE"
          /\ rTrial[args[w].trial_id].values # <<>>
          /\ rTrial[args[w].trial_id].values = rTrial[rBest[1]].values

----------------------------------------------------------------------------
(* RedisStorage: every worker completes its own trial of a study with one    *)
(* direction; the trials have their values.                                   *)

\* A study of direction MINIMIZE or MAXIMIZE whose RUNNING trials have values.
InitRedisRace ==
    /\ now = 0
    /\ \E v \in [TrialIds -> Values] :
          rTrial = [t \in TrialIds |->
                       [FrozenTrial(t, t, "RUNNING", <<0>>) EXCEPT !.values = <<v[t]>>]]
    /\ rDist = EmptyMap
    /\ rHb = EmptyMap
    /\ rBest = <<>>
    /\ rDirs \in SingleDirections
    /\ rKeys = StudyKeys(NTrials)
    /\ InitWorkers
    /\ InitNoStore
    /\ InitNoMem

NextRedisRace ==
    \E w \in Workers :
        \/ BeginCounted(w, SetStateArgs(OwnedTrial(w), "COMPLETE"))
        \/ Redis_set_trial_state_steps(w)
        \/ Return(w)

SpecRedisRace == InitRedisRace /\ [][NextRedisRace]_vars

\* The COMPLETE trials.
RedisCompleted == {t \in TrialIds : rTrial[t].state = "COMPLETE"}

\* The full rescan: the COMPLETE trials no other COMPLETE trial is better than.
RedisRescan ==
    {t \in RedisCompleted :
        \A u \in RedisCompleted :
            ~StrictlyBetter(rDirs[1], rTrial[u].values[1], rTrial[t].values[1])}

\* C31: once the completions of the workers have ended, the best_trial_id of
\* the study is a COMPLETE trial that a full rescan finds best.
C31_BestIsRescanAfterRace ==
    (\A w \in Workers : pc[w] \in {"idle", "done"}) /\ RedisCompleted # {}
    => rBest # <<>> /\ rBest[1] \in RedisRescan

----------------------------------------------------------------------------
(* set_trial_param with distributions of one family and different bounds, on *)
(* an InMemoryStorage or on a RedisStorage whose trials are RUNNING.          *)

RegisterDistributions == {IntU, IntW, CatA}

\* A study of an InMemoryStorage whose trials were created RUNNING at time 0.
InitMemRunning ==
    /\ now = 0
    /\ InitNoRedis
    /\ mTrials = [i \in 1..NTrials |-> FrozenTrial(i - 1, i - 1, "RUNNING", <<0>>)]
    /\ mDist = EmptyMap
    /\ mBest = <<>>
    /\ mDirs = <<"MINIMIZE">>
    /\ cache = [w \in Workers |-> NoCache]
    /\ InitWorkers
    /\ InitNoStore

InitRegister == InitMemRunning \/ InitRedisRunning

NextRegister ==
    \E w \in Workers :
        \/ \E n \in ParamNames, d \in RegisterDistributions :
              BeginFree(w, SetParamArgs(OwnedTrial(w), n, SomeValue, d))
        \/ ~RedisInUse /\ Mem_set_trial_param(w)
        \/ RedisInUse /\ Redis_set_trial_param_check(w)
        \/ RedisInUse /\ Redis_set_trial_param_distribution(w)
        \/ RedisInUse /\ Redis_set_trial_param_get(w)
        \/ RedisInUse /\ Redis_set_trial_param_execute(w)
        \/ Return(w)

SpecRegister == InitRegister /\ [][NextRegister]_vars

\* The study has registered a distribution for the name of the call a, and the
\* distribution of a is compatible with it.
RegisteredCompatible(registry, a) ==
    /\ a.name \in DOMAIN registry
    /\ check_distribution_compatibility(registry[a.name], a.dist)

\* C32: a set_trial_param with a distribution compatible with the one the
\* study has registered for the name succeeds and leaves the registered
\* distribution as it was, on InMemoryStorage and on RedisStorage.
C32_CompatibleRegistrationIsNoOp ==
    [][\A w \in Workers :
          /\ ~RedisInUse /\ pc[w] = "set_trial_param" /\ pc'[w] = "done"
             /\ RegisteredCompatible(mDist, args[w])
             => ret'[w] = "None" /\ mDist'[args[w].name] = mDist[args[w].name]
          /\ RedisInUse /\ pc[w] = "stp_dist" /\ pc'[w] # "stp_dist"
             /\ RegisteredCompatible(rDist, args[w])
             => pc'[w] = "stp_get"
          /\ RedisInUse /\ pc[w] = "stp_exec" /\ pc'[w] = "done"
             /\ RegisteredCompatible(rDist, args[w])
             => ret'[w] = "None" /\ rDist'[args[w].name] = rDist[args[w].name]]_vars

\* The same, for the success of the call alone.
CompatibleRegistrationSucceeds ==
    [][\A w \in Workers :
          /\ ~RedisInUse /\ pc[w] = "set_trial_param" /\ pc'[w] = "done"
             /\ RegisteredCompatible(mDist, args[w])
             => ret'[w] = "None"
          /\ RedisInUse /\ pc[w] = "stp_dist" /\ pc'[w] # "stp_dist"
             /\ RegisteredCompatible(rDist, args[w])
             => pc'[w] = "stp_get"]_vars

----------------------------------------------------------------------------
(* RedisStorage: the study's trial list against the numbers of its trials.   *)

\* get_trial_id_from_study_id_trial_number, for a number the list has.
Redis_get_trial_id_from_study_id_trial_number(trial_number) ==
    rKeys.trial_list[trial_number + 1]

\* The ids of the study's trial list are pairwise distinct.
DistinctIds ==
    \A i, j \in DOMAIN rKeys.trial_list : rKeys.trial_list[i] = rKeys.trial_list[j] => i = j

\* C33: when no create_new_trial is under way (and the ids of the created
\* trials are distinct), get_trial_id_from_study_id_trial_number(n) is the id
\* of the trial whose number is n, for every number of the study's trial list,
\* so that get_all_trials, which follows the list, is in increasing number order.
C33_PositionIsNumber ==
    Quiet /\ DistinctIds
    => \A n \in 0..(Len(rKeys.trial_list) - 1) :
          rTrial[Redis_get_trial_id_from_study_id_trial_number(n)].number = n

----------------------------------------------------------------------------
(* RedisStorage: the intermediate values of a trial under concurrent writes. *)

\* The steps of the trial's persisted intermediate values.
Redis_steps(trials, t) == DOMAIN trials[t].intermediate_values

\* C34: a step that set_trial_intermediate_value has stored (the call returns
\* with the command that stores it) stays in the trial's persisted
\* intermediate values in every later state.
C34_IntermediateValuesStay ==
    [][\A t \in DOMAIN rTrial :
          t \in DOMAIN rTrial' /\ Redis_steps(rTrial, t) \subseteq Redis_steps(rTrial', t)]_vars

----------------------------------------------------------------------------
(* One _CachedStorage shared by the threads of a process: the workers are    *)
(* threads, the wrapper is the one of Wrapped, lock is its _lock (a          *)
(* threading.Lock: a thread that holds it and acquires it again blocks for   *)
(* ever).  A `with self._lock:` block is an acquiring step, which waits for  *)
(* the lock to be free, and the step of its body, which ends with the lock   *)
(* released, by return or by exception.                                      *)

\* The lock after thread w has held it and a `with` block that does not
\* release it.
StillHeld(w) == w

\* The lock after thread w has left its `with self._lock:` block.
Released(w) == 0

Shared == cache[Wrapped]

\* The labels at which a thread waits for the lock and where it goes with it.
AcquireLabels ==
    [set_trial_state |-> "sts_locked", sts_relock |-> "sts_cache",
     set_trial_user_attr |-> "sua_locked",
     read_trials_from_remote_storage |-> "rt_locked"]

\* The labels of the bodies of the `with` blocks.
LockedLabels == {AcquireLabels[l] : l \in DOMAIN AcquireLabels}

\* with self._lock: the thread waits until the lock is free and takes it.
Thread_acquire(w) ==
    /\ pc[w] \in DOMAIN AcquireLabels
    /\ lock = 0
    /\ lock' = w
    /\ Goto(w, AcquireLabels[pc[w]])
    /\ UNCHANGED <<now, mStore, cStore, redisVars, memVars, cache, args, loc, ret, ncalls>>

\* set_trial_state ends with r: it returns to fail_stale_trials, which goes on
\* with its loop unless r is an exception, or to the caller of the thread.
Thread_set_trial_state_end(w, r) ==
    IF loc[w].caller = "fail_stale_trials" /\ r \in {"True", "False"}
    THEN /\ Goto(w, "fst_loop")
         /\ loc' = [loc EXCEPT ![w].confirmed =
                        IF r = "True" THEN @ \cup {args[w].trial_id} ELSE @]
         /\ UNCHANGED ret
    ELSE Done(w, r)

\* set_trial_state, the first block: a cached trial is changed and flushed, for
\* another trial the block ends and the backend is called outside it.
Thread_set_trial_state_locked(w) ==
    /\ pc[w] = "sts_locked" /\ lock = w
    /\ lock' = Released(w)
    /\ LET c == Shared
           trial_id == args[w].trial_id
           state == args[w].state
           cached_trial == Cached_get_cached_trial(c, trial_id)
       IN IF cached_trial = <<>>
          THEN Goto(w, "sts_backend") /\ UNCHANGED <<cache, mTrials, mBest, loc, ret>>
          ELSE IF cached_trial[1].state = "WAITING"
          THEN /\ Thread_set_trial_state_end(w, "AssertionError")
               /\ UNCHANGED <<cache, mTrials, mBest>>
          ELSE IF is_finished(cached_trial[1].state)
          THEN /\ Thread_set_trial_state_end(w, "NotUpdatable")
               /\ UNCHANGED <<cache, mTrials, mBest>>
          ELSE LET trial == [cached_trial[1] EXCEPT
                               !.state = state,
                               !.datetime_complete =
                                   IF is_finished(state) THEN <<now>> ELSE @]
                   updates == [Cached_get_updates(c, trial_id) EXCEPT
                                 !.state = <<state>>,
                                 !.datetime_complete =
                                     IF is_finished(state) THEN <<now>> ELSE @]
                   o == Cached_flush_trial(
                            [c EXCEPT !.trials = Put(@, trial_id, trial),
                                      !.updates = Put(@, trial_id, updates)],
                            trial_id)
               IN /\ cache' = [cache EXCEPT ![Wrapped] = o.cache]
                  /\ mTrials' = o.trials
                  /\ mBest' = o.best
                  /\ Thread_set_trial_state_end(w, o.result)
    /\ UNCHANGED <<now, mStore, cStore, redisVars, mDist, mDirs, args, ncalls>>

\* set_trial_state, outside the blocks: the backend's set_trial_state and the
\* test whether the thread has claimed a trial the wrapper knows.
Thread_set_trial_state_backend(w) ==
    /\ pc[w] = "sts_backend"
    /\ LET o == Mem_set_trial_state_op(args[w].trial_id, args[w].state)
       IN /\ mTrials' = o.trials
          /\ mBest' = o.best
          /\ IF /\ o.result = "True" /\ args[w].state = "RUNNING"
                /\ args[w].trial_id \in Shared.ids
             THEN Goto(w, "sts_relock") /\ UNCHANGED <<ret, loc>>
             ELSE Thread_set_trial_state_end(w, o.result)
    /\ UNCHANGED <<now, storeVars, redisVars, mDist, mDirs, cache, args, ncalls>>

\* set_trial_state, the second block: the claimed trial is read and cached.
Thread_set_trial_state_cache(w) ==
    /\ pc[w] = "sts_cache" /\ lock = w
    /\ lock' = Released(w)
    /\ cache' = [cache EXCEPT ![Wrapped] =
                    [Cached_add_trials_to_cache(@, {args[w].trial_id}) EXCEPT
                        !.owned_or_finished_trial_ids = @ \cup {args[w].trial_id}]]
    /\ Thread_set_trial_state_end(w, "True")
    /\ UNCHANGED <<now, mStore, cStore, redisVars, memVars, args, ncalls>>

\* set_trial_user_attr, the block: a cached trial is changed and flushed.
Thread_set_trial_user_attr_locked(w) ==
    /\ pc[w] = "sua_locked" /\ lock = w
    /\ lock' = Released(w)
    /\ LET c == Shared
           a == args[w]
           cached_trial == Cached_get_cached_trial(c, a.trial_id)
           o == Cached_flush_trial(
                    [c EXCEPT
                        !.trials = Put(@, a.trial_id,
                            [Cached_trial(c, a.trial_id) EXCEPT
                                !.user_attrs = Put(@, a.key, a.value)]),
                        !.updates = Put(@, a.trial_id,
                            [Cached_get_updates(c, a.trial_id) EXCEPT
                                !.user_attrs = Put(@, a.key, a.value)])],
                    a.trial_id)
       IN IF cached_trial = <<>>
          THEN Goto(w, "sua_backend") /\ UNCHANGED <<cache, mTrials, mBest, loc, ret>>
          ELSE IF is_finished(cached_trial[1].state)
          THEN Done(w, "NotUpdatable") /\ UNCHANGED <<cache, mTrials, mBest>>
          ELSE /\ cache' = [cache EXCEPT ![Wrapped] = o.cache]
               /\ mTrials' = o.trials
               /\ mBest' = o.best
               /\ Done(w, NoneUnlessRaised(o.result))
    /\ UNCHANGED <<now, mStore, cStore, redisVars, mDist, mDirs, args, ncalls>>

\* set_trial_user_attr, outside the block: the backend's set_trial_user_attr.
Thread_set_trial_user_attr_backend(w) ==
    /\ pc[w] = "sua_backend"
    /\ LET o == Mem_write_op(args[w].trial_id, Mem_set_trial_user_attr_trial(args[w]))
       IN mTrials' = o.trials /\ Done(w, o.result)
    /\ UNCHANGED <<now, storeVars, redisVars, mDist, mBest, mDirs, cache, args, ncalls>>

\* read_trials_from_remote_storage, the block.
Thread_read_trials_locked(w) ==
    /\ pc[w] = "rt_locked" /\ lock = w
    /\ lock' = Released(w)
    /\ cache' = [cache EXCEPT ![Wrapped] = Cached_read_trials(@)]
    /\ Done(w, "None")
    /\ UNCHANGED <<now, mStore, cStore, redisVars, memVars, args, ncalls>>

\* fail_stale_trials: the backend gives the stale trials, RUNNING trials whose
\* heartbeat is older than the grace period.
Thread_fail_stale_trials_scan(w) ==
    /\ pc[w] = "fail_stale_trials"
    /\ \E stale \in SUBSET {t \in MemTrialIds : Mem_get_trial(mTrials, t).state = "RUNNING"} :
          loc' = [loc EXCEPT ![w].todo = stale, ![w].caller = "fail_stale_trials"]
    /\ Goto(w, "fst_loop")
    /\ UNCHANGED <<now, storeVars, redisVars, memVars, cache, args, ret, ncalls>>

\* fail_stale_trials: the loop calls self.set_trial_state(trial_id, FAIL) for
\* the next stale trial, or returns the confirmed ones.
Thread_fail_stale_trials_loop(w) ==
    /\ pc[w] = "fst_loop"
    /\ IF loc[w].todo = {}
       THEN Done(w, "confirmed") /\ UNCHANGED args
       ELSE LET trial_id == CHOOSE t \in loc[w].todo : \A u \in loc[w].todo : t <= u
            IN /\ args' = [args EXCEPT ![w].trial_id = trial_id, ![w].state = "FAIL"]
               /\ loc' = [loc EXCEPT ![w].todo = @ \ {trial_id}]
               /\ Goto(w, "set_trial_state")
               /\ UNCHANGED ret
    /\ UNCHANGED <<now, storeVars, redisVars, memVars, cache, ncalls>>

\* A step of thread w inside a call.
ThreadStep(w) ==
    \/ Thread_acquire(w)
    \/ Thread_set_trial_state_locked(w)
    \/ Thread_set_trial_state_backend(w)
    \/ Thread_set_trial_state_cache(w)
    \/ Thread_set_trial_user_attr_locked(w)
    \/ Thread_set_trial_user_attr_backend(w)
    \/ Thread_read_trials_locked(w)
    \/ Thread_fail_stale_trials_scan(w)
    \/ Thread_fail_stale_trials_loop(w)

ThreadArgs ==
    {SetStateArgs(t, st) : t \in {WrappedTrial, DirectTrial}, st \in TrialStates}
    \cup {SetUserAttrArgs(t, "k", SomeValue) : t \in {WrappedTrial, DirectTrial}}
    \cup {ReadTrialsArgs, FailStaleArgs}

\* The wrapper owns the RUNNING WrappedTrial and has read DirectTrial, which
\* waits in the backend's queue.
InitThreads ==
    /\ now = 0
    /\ InitNoRedis
    /\ mTrials = [i \in 1..NTrials |->
                    FrozenTrial(i - 1, i - 1,
                        IF i - 1 = WrappedTrial THEN "RUNNING" ELSE "WAITING", <<0>>)]
    /\ mDist = EmptyMap
    /\ mBest = <<>>
    /\ mDirs = <<"MINIMIZE">>
    /\ cache = [w \in Workers |->
                  IF w = Wrapped
                  THEN [NoCache EXCEPT
                          !.known = TRUE,
                          !.ids = {WrappedTrial, DirectTrial},
                          !.trials = Put(Put(EmptyMap, WrappedTrial,
                              FrozenTrial(WrappedTrial, WrappedTrial, "RUNNING", <<0>>)),
                              DirectTrial,
                              FrozenTrial(DirectTrial, DirectTrial, "WAITING", <<0>>)),
                          !.owned_or_finished_trial_ids = {WrappedTrial}]
                  ELSE NoCache]
    /\ InitWorkers
    /\ InitNoStore

NextThreads ==
    \E w \in Workers :
        \/ \E a \in ThreadArgs : BeginCounted(w, a)
        \/ ThreadStep(w)
        \/ Return(w)

SpecThreads == InitThreads /\ [][NextThreads]_vars

\* The lock is free or held by a thread that is in the body of a `with` block,
\* where it can take its step; a thread that waits for the lock does not hold
\* it; a thread outside a call does not hold it.
LockDiscipline ==
    /\ lock \in {0} \cup Workers
    /\ lock # 0 => pc[lock] \in LockedLabels /\ ENABLED ThreadStep(lock)
    /\ \A w \in Workers :
          /\ pc[w] \in DOMAIN AcquireLabels => lock # w
          /\ pc[w] \in {"idle", "done"} => lock # w

\* While a thread is in a call some thread can take a step, and a thread that
\* waits for a free lock can take it.
NoThreadDeadlock ==
    /\ (\E w \in Workers : pc[w] # "idle") =>
           \E w \in Workers : ENABLED (ThreadStep(w) \/ Return(w))
    /\ \A w \in Workers : pc[w] \in DOMAIN AcquireLabels /\ lock = 0 => ENABLED Thread_acquire(w)

Raised(r) == r \notin {"True", "False", "None"}

\* The step of w is a _flush_trial, called alone or by a write to a RUNNING
\* trial the wrapper owns, whose backend call raises.
FlushRaises(w) ==
    /\ \/ \E label \in WriteLabels : OwnerWrites(w, label)
       \/ /\ pc[w] = "_flush_trial" /\ pc'[w] = "done"
          /\ Pending(cache[w], args[w].trial_id)
    /\ Raised(ret'[w])

\* C36: when the backend call of _flush_trial raises, the updates that were
\* pending for the trial are pending afterwards.
C36_RaisedFlushKeepsUpdates ==
    [][\A w \in Workers :
          FlushRaises(w) => Pending(cache'[w], args[w].trial_id)]_vars


\* C37: the directions a wrapper has cached for the study, when they are not
\* the unset [NOT_SET], are the directions the backend holds; a
\* set_study_directions the backend rejects leaves them as they were.
C37_CachedDirectionsAreBackends ==
    \A w \in Workers :
        (cache[w].known /\ cache[w].directions # <<"NOT_SET">>)
        => cache[w].directions = mDirs

----------------------------------------------------------------------------
(* RedisStorage: workers register parameters of two names. *)

TwoParamNames == {"x", "y"}

NextRedisTwoParams ==
    \E w \in Workers :
        \/ \E t \in TrialIds, n \in TwoParamNames, v \in InternalValues, d \in {IntU, CatA} :
               BeginCounted(w, SetParamArgs(t, n, v, d))
        \/ Redis_set_trial_param_check(w)
        \/ Redis_set_trial_param_distribution(w)
        \/ Redis_set_trial_param_get(w)
        \/ Redis_set_trial_param_execute(w)

SpecRedisTwoParams == InitRedisRunning /\ [][NextRedisTwoParams]_vars

\* C38: when two workers have called set_trial_param for two different names,
\* not registered in the study before, and both calls have returned, both names
\* are in the study's parameter-distribution map.
C38_BothNamesRegistered ==
    \A w1, w2 \in Workers :
        (/\ w1 # w2
         /\ pc[w1] = "done" /\ pc[w2] = "done"
         /\ args[w1].op = "set_trial_param" /\ args[w2].op = "set_trial_param"
         /\ args[w1].name # args[w2].name
         /\ ret[w1] = "None" /\ ret[w2] = "None")
        => {args[w1].name, args[w2].name} \subseteq DOMAIN rDist

----------------------------------------------------------------------------
(* RedisStorage with two studies.  Trial ids come from the one counter       *)
(* "trial_counter" and numbers from a counter per study: the other study     *)
(* was given trial id 0, so in the study the workers use the trial of number *)
(* n has the id n + 1.  rKeys, rBest and rDirs are the keys of that study.   *)

\* The trial ids of the study, from its trial list.
StudyTrialIds == {rKeys.trial_list[i] : i \in DOMAIN rKeys.trial_list}

\* Trial 0 belongs to the other study; the study's trials are RUNNING and have
\* their values.
InitRedisOtherStudy ==
    /\ now = 0
    /\ \E v \in [TrialIds -> Values], s \in {"RUNNING", "COMPLETE"} :
          rTrial = [t \in TrialIds |->
                       IF t = 0
                       THEN [FrozenTrial(0, 0, s, <<0>>) EXCEPT !.values = <<v[t]>>]
                       ELSE [FrozenTrial(t, t - 1, "RUNNING", <<0>>) EXCEPT
                                !.values = <<v[t]>>]]
    /\ rDist = EmptyMap
    /\ rHb = EmptyMap
    /\ rBest = <<>>
    /\ rDirs \in SingleDirections
    /\ rKeys = [trial_counter |-> <<NTrials - 1>>,
                trial_number |-> NTrials - 2,
                trial_list |-> [i \in 1..(NTrials - 1) |-> i]]
    /\ InitWorkers
    /\ InitNoStore
    /\ InitNoMem

NextRedisOtherStudy ==
    \E w \in Workers :
        \/ \E t \in StudyTrialIds : BeginFree(w, SetStateArgs(t, "COMPLETE"))
        \/ BeginFree(w, GetBestTrialArgs)
        \/ Redis_set_trial_state_steps(w)
        \/ Redis_get_best_trial_steps(w)
        \/ Return(w)

SpecRedisOtherStudy == InitRedisOtherStudy /\ [][NextRedisOtherStudy]_vars

\* C39: a get_best_trial of the study that has returned has returned a COMPLETE
\* trial of the study, and the study's best_trial_id is the id of one of its
\* trials.
C39_BestTrialIsOfTheStudy ==
    /\ \A w \in Workers :
          (pc[w] = "done" /\ args[w].op = "get_best_trial" /\ ret[w] = "trial")
          => /\ loc[w].trial.trial_id \in StudyTrialIds
             /\ loc[w].trial.state = "COMPLETE"
    /\ rBest # <<>> => rBest[1] \in StudyTrialIds


\* C40: a set_trial_state that raises, on InMemoryStorage and on RedisStorage,
\* raises in its first step, before it has written anything, and that step
\* leaves the trial records and the best-trial pointer as they are: the trial
\* and the pointer are as before the call.
C40_SetTrialStateAllOrNothing ==
    [][\A w \in Workers :
          (/\ args[w].op = "set_trial_state"
           /\ pc[w] # "done" /\ pc'[w] = "done"
           /\ Raised(ret'[w]))
          => /\ pc[w] = "set_trial_state"
             /\ mTrials' = mTrials /\ mBest' = mBest
             /\ rTrial' = rTrial /\ rBest' = rBest]_vars

====
